---- MODULE Spec2Model ----
(***************************************************************************)
(* Bookmark manager API: the bookmark, tag and category services over the  *)
(* relational store (Prisma / SQLite).  The store is modelled table by     *)
(* table with the constraints the schema declares (primary keys, unique    *)
(* indexes, foreign keys); every service method is modelled statement by   *)
(* statement (one step per awaited Prisma call), and a whole call is the   *)
(* run of its statements to completion.                                    *)
(***************************************************************************)
EXTENDS Integers, Sequences, FiniteSets, TLC

VARIABLES
    websiteMetadata,   \* table website_metadata: set of rows
    categories,        \* table categories
    bookmarks,         \* table bookmarks
    tags,              \* table tags
    bookmarkTags,      \* table bookmark_tags (junction)
    seq,               \* id generator state (cuid()), one counter per table
    clock,             \* wall clock read by new Date()
    last,              \* the last completed service call and its outcome
    req                \* the service calls in flight (statement-level interleaving)

vars == <<websiteMetadata, categories, bookmarks, tags, bookmarkTags, seq, clock, last, req>>

-----------------------------------------------------------------------------
(* Bounds of the model *)

MaxBookmarks == 2
MaxProcs == 2

\* bookmarks created in the specifications about tag and category references
MaxRefBookmarks == 1

\* bookmarks created, and pages asked for, in the specification about pagination
MaxListed == 5
MaxPage == 4

\* categories and tags hard-deleted in the specification about deletes
MaxDeletes == 1

\* the latest time the clock shows in the specification about soft deletes
MaxClock == 3

Users == {"u1", "u2"}
Urls == {"https://x.io", "https://y.io"}
TagNames == {"dev", "ref"}
CategoryNames == {"Work"}

\* the names a category can be renamed to as well
CategoryNamesEver == CategoryNames \cup {"Home"}

-----------------------------------------------------------------------------
(* Values *)

\* ids are opaque strings made by cuid(); the k-th row ever inserted for a unique key
\* is named by the key and k, which is fresh whatever the order of the inserts
MetadataId(url, k) == <<"wm", url, k>>
CategoryId(userId, name, k) == <<"cat", userId, name, k>>
TagId(userId, name, k) == <<"tag", userId, name, k>>
BookmarkId(n) == <<"bm", n>>

NullId == <<>>
UndefId == <<"undefined">>
\* the empty string sent as an id: a string that names no row and is falsy
EmptyId == <<"">>
NullTime == 0
DefaultLimit == 20
MaxLimit == 100
NullStr == "<null>"
UndefStr == "<undefined>"
UndefTags == <<UndefStr>>

BookmarkIds == {BookmarkId(n) : n \in 1..MaxBookmarks}
CategoryIds == {CategoryId(u, n, 1) : u \in Users, n \in CategoryNames}
TagIds == {TagId(u, n, 1) : u \in Users, n \in TagNames}

Range(s) == {s[i] : i \in 1..Len(s)}

\* undefined -> column default / NULL, as Prisma does for an omitted optional field
OrNullStr(v) == IF v = UndefStr THEN NullStr ELSE v
OrNullId(v) == IF v = UndefId THEN NullId ELSE v

-----------------------------------------------------------------------------
(* The database *)

DB == [websiteMetadata |-> websiteMetadata, categories |-> categories,
       bookmarks |-> bookmarks, tags |-> tags, bookmarkTags |-> bookmarkTags,
       seq |-> seq, clock |-> clock]

EmptyDB == [websiteMetadata |-> {}, categories |-> {}, bookmarks |-> {}, tags |-> {},
            bookmarkTags |-> {},
            seq |-> [websiteMetadata |-> [u \in Urls |-> 0],
                     categories |-> [k \in Users \X CategoryNamesEver |-> 0],
                     bookmarks |-> 0,
                     tags |-> [k \in Users \X TagNames |-> 0]],
            clock |-> 1]

\* rows of a table matching a predicate on the id; at most one by the primary key
RowsById(table, id) == {r \in table : r.id = id}
TheRow(rows) == CHOOSE r \in rows : TRUE

\* @@unique([url]) of WebsiteMetadata
MetadataByUrl(db, url) == {m \in db.websiteMetadata : m.url = url}
\* @@unique([userId, name]) of Tag
TagsByUserName(db, userId, name) == {t \in db.tags : t.userId = userId /\ t.name = name}
\* @@unique([userId, name]) of Category
CategoriesByUserName(db, userId, name) ==
    {c \in db.categories : c.userId = userId /\ c.name = name}
\* @@id([bookmarkId, tagId]) of BookmarkTag
LinkRows(db, bookmarkId, tagId) ==
    {l \in db.bookmarkTags : l.bookmarkId = bookmarkId /\ l.tagId = tagId}

\* include: { websiteMetadata: true, category: true, tags: { include: { tag: true } } }
Hydrate(db, b) ==
    [bookmark |-> b,
     websiteMetadata |-> RowsById(db.websiteMetadata, b.websiteMetadataId),
     category |-> RowsById(db.categories, b.categoryId),
     tags |-> {t \in db.tags : LinkRows(db, b.id, t.id) # {}}]

-----------------------------------------------------------------------------
(* Service calls.  A call is a record: the method, the authenticated user, *)
(* the arguments, the position in the method (pc) and its local variables. *)

NoData == [url |-> UndefStr, personalTitle |-> UndefStr, personalNote |-> UndefStr,
           categoryId |-> UndefId, isPublic |-> <<>>, tags |-> UndefTags,
           tagIds |-> <<>>, name |-> UndefStr, page |-> 1, limit |-> 1,
           search |-> UndefStr]

NoResult == [ok |-> FALSE, error |-> "pending", code |-> "", status |-> 0,
             body |-> <<>>, pagination |-> <<>>]

\* no Authorization header: a token of nobody signed with nothing
NoToken == [userId |-> "", key |-> ""]

Idle == [op |-> "idle", userId |-> "", bookmarkId |-> NullId, tagId |-> NullId,
         token |-> NoToken,
         data |-> NoData, pc |-> "idle", i |-> 0, metaId |-> NullId,
         target |-> NullId, tag |-> NullId, count |-> 0, after |-> "",
         newNames |-> <<>>,
         result |-> NoResult]

FirstPc(op) ==
    CASE op = "createBookmark" -> "cb_findMetadata"
      [] op = "getBookmarks" -> "gl_count"
      [] op = "getBookmarkById" -> "gb_find"
      [] op = "updateBookmark" -> "ub_find"
      [] op = "deleteBookmark" -> "db_find"
      [] op = "addTagsToBookmark" -> "at_find"
      [] op = "removeTagFromBookmark" -> "rt_find"
      [] op = "updateBookmarkCategory" -> "uc_find"
      [] op = "createTag" -> "ct_find"
      [] op = "getTagWithBookmarks" -> "gt_find"
      [] op = "findOrCreateTags" -> "ft_findExisting"
      [] op = "createCategory" -> "cc_find"
      [] op = "getCategoriesByUserId" -> "lc_query"
      [] op = "getCategoryById" -> "gc_find"
      [] op = "updateCategory" -> "yc_find"
      [] op = "deleteCategory" -> "xc_find"
      [] op = "getTags" -> "lt_query"
      [] op = "getTagById" -> "tg_find"
      [] op = "updateTag" -> "yt_find"
      [] op = "deleteTag" -> "xt_find"

Call(op, userId, bookmarkId, tagId, data) ==
    [Idle EXCEPT !.op = op, !.userId = userId, !.bookmarkId = bookmarkId,
                 !.tagId = tagId, !.data = data, !.pc = FirstPc(op)]

Out(db, r) == [db |-> db, r |-> r]
Goto(db, r, pc) == Out(db, [r EXCEPT !.pc = pc])

\* return value of the method
Return(db, r, status, body, pagination) ==
    Out(db, [r EXCEPT !.pc = "done",
                      !.result = [ok |-> TRUE, error |-> "", code |-> "OK", status |-> status,
                                  body |-> body, pagination |-> pagination]])

\* throw new BookmarkError / CategoryError / AppError (message, code, statusCode)
Throw(db, r, error, code, status) ==
    Out(db, [r EXCEPT !.pc = "done",
                      !.result = [ok |-> FALSE, error |-> error, code |-> code,
                                  status |-> status, body |-> <<>>, pagination |-> <<>>]])

\* a PrismaClientKnownRequestError raised by the store: P2002 unique constraint,
\* P2003 foreign key constraint, P2025 record to update not found
ThrowPrisma(db, r, code) == Throw(db, r, "PrismaClientKnownRequestError", code, 0)

\* BookmarkController.handleError: the HTTP status and error code of a thrown error
HandleError(result) ==
    IF result.error = "BookmarkError"
    THEN [status |-> result.status, code |-> result.code]
    ELSE [status |-> 500, code |-> "INTERNAL_SERVER_ERROR"]

\* the HTTP reply of a bookmark route for a finished call
Reply(result) ==
    IF result.ok THEN [status |-> result.status, code |-> "OK"] ELSE HandleError(result)

-----------------------------------------------------------------------------
(* Constraints declared by the schema *)

\* WebsiteMetadata without @unique on url: every insert is accepted
UrlUnconstrained(db, url) == TRUE

\* url String @unique
WebsiteMetadataUrlFree(db, url) == MetadataByUrl(db, url) = {}

\* @@unique([userId, name]) on tags
TagNameFree(db, userId, name) == TagsByUserName(db, userId, name) = {}

\* @@unique([userId, name]) on categories
CategoryNameFree(db, userId, name) == CategoriesByUserName(db, userId, name) = {}

\* @@id([bookmarkId, tagId])
LinkFree(db, bookmarkId, tagId) == LinkRows(db, bookmarkId, tagId) = {}

\* bookmarks_categoryId_fkey: a non-null categoryId references a category row
CategoryFkOk(db, categoryId) ==
    categoryId = NullId \/ RowsById(db.categories, categoryId) # {}

\* bookmark_tags_bookmarkId_fkey and bookmark_tags_tagId_fkey
LinkFkOk(db, bookmarkId, tagId) ==
    RowsById(db.bookmarks, bookmarkId) # {} /\ RowsById(db.tags, tagId) # {}

-----------------------------------------------------------------------------
(* The ownership guard of the bookmark service *)

\* the guard without its owner test: any user's id reaches the row
FindLiveBookmarkOfAnyone(db, bookmarkId, userId) ==
    {b \in db.bookmarks : b.id = bookmarkId /\ b.deletedAt = NullTime}

\* the guard without its deletedAt test: a deleted row is still found
FindOwnedBookmarkDeletedOrNot(db, bookmarkId, userId) ==
    {b \in db.bookmarks : b.id = bookmarkId /\ b.userId = userId}

\* prisma.bookmark.findFirst({ where: { id, userId, deletedAt: null } })
FindOwnedLiveBookmark(db, bookmarkId, userId) ==
    {b \in db.bookmarks : b.id = bookmarkId /\ b.userId = userId /\ b.deletedAt = NullTime}

\* prisma.category.findFirst({ where: { id, userId } })
FindOwnedCategory(db, categoryId, userId) ==
    {c \in db.categories : c.id = categoryId /\ c.userId = userId}

\* the tag lookup without its owner test
FindTagOfAnyone(db, tagId, userId) == {t \in db.tags : t.id = tagId}

\* prisma.tag.findFirst({ where: { id, userId } })
FindOwnedTag(db, tagId, userId) ==
    {t \in db.tags : t.id = tagId /\ t.userId = userId}

NotFound(db, r) == Throw(db, r, "BookmarkError", "BOOKMARK_NOT_FOUND", 404)

-----------------------------------------------------------------------------
(* BookmarkService.createBookmark *)

\* getOrCreateWebsiteMetadata: prisma.websiteMetadata.findUnique({ where: { url } })
CbFindMetadata(db, r) ==
    LET found == MetadataByUrl(db, r.data.url)
    IN IF found = {}
       THEN Goto(db, [r EXCEPT !.metaId = NullId], "cb_createMetadata")
       ELSE Goto(db, [r EXCEPT !.metaId = TheRow(found).id], "cb_createBookmark")

\* getOrCreateWebsiteMetadata: prisma.websiteMetadata.create({ data: { url, ... } })
CbCreateMetadata(db, r) ==
    IF ~WebsiteMetadataUrlFree(db, r.data.url)
    THEN ThrowPrisma(db, r, "P2002")
    ELSE LET id == MetadataId(r.data.url, db.seq.websiteMetadata[r.data.url] + 1)
         IN Goto([db EXCEPT !.websiteMetadata = @ \cup {[id |-> id, url |-> r.data.url,
                                                         title |-> NullStr]},
                            !.seq.websiteMetadata[r.data.url] = @ + 1],
                 [r EXCEPT !.metaId = id], "cb_createBookmark")

\* the first statement of the tag loop, or the statement after it when there is no tag
TagLoopEntry(r, after) ==
    IF r.data.tags # UndefTags /\ Len(r.data.tags) > 0
    THEN [r EXCEPT !.i = 1, !.after = after, !.pc = "tag_find"]
    ELSE [r EXCEPT !.pc = after]

\* prisma.bookmark.create({ data: { userId, websiteMetadataId, personalTitle, ... } })
CbCreateBookmark(db, r) ==
    IF ~CategoryFkOk(db, OrNullId(r.data.categoryId))
    THEN ThrowPrisma(db, r, "P2003")
    ELSE LET n == db.seq.bookmarks + 1
             id == BookmarkId(n)
             row == [id |-> id, userId |-> r.userId, websiteMetadataId |-> r.metaId,
                     createdAt |-> n,
                     personalTitle |-> OrNullStr(r.data.personalTitle),
                     personalNote |-> OrNullStr(r.data.personalNote),
                     categoryId |-> OrNullId(r.data.categoryId),
                     isPublic |-> IF r.data.isPublic = <<>> THEN FALSE ELSE r.data.isPublic[1],
                     deletedAt |-> NullTime]
         IN Out([db EXCEPT !.bookmarks = @ \cup {row}, !.seq.bookmarks = n],
                TagLoopEntry([r EXCEPT !.target = id], "cb_refetch"))

\* for (const tagName of tags): prisma.tag.findUnique({ where: { userId_name } })
TagFind(db, r) ==
    LET found == TagsByUserName(db, r.userId, r.data.tags[r.i])
    IN IF found = {}
       THEN Goto(db, [r EXCEPT !.tag = NullId], "tag_create")
       ELSE Goto(db, [r EXCEPT !.tag = TheRow(found).id], "tag_link")

\* if (!tag) tag = prisma.tag.create({ data: { userId, name: tagName } })
TagCreate(db, r) ==
    IF ~TagNameFree(db, r.userId, r.data.tags[r.i])
    THEN ThrowPrisma(db, r, "P2002")
    ELSE LET name == r.data.tags[r.i]
             id == TagId(r.userId, name, db.seq.tags[<<r.userId, name>>] + 1)
         IN Goto([db EXCEPT !.tags = @ \cup {[id |-> id, userId |-> r.userId, name |-> name]},
                            !.seq.tags[<<r.userId, name>>] = @ + 1],
                 [r EXCEPT !.tag = id], "tag_link")

\* prisma.bookmarkTag.create({ data: { bookmarkId, tagId: tag.id } }), then the next name
TagLink(db, r) ==
    IF ~LinkFree(db, r.target, r.tag)
    THEN ThrowPrisma(db, r, "P2002")
    ELSE IF ~LinkFkOk(db, r.target, r.tag)
    THEN ThrowPrisma(db, r, "P2003")
    ELSE LET db2 == [db EXCEPT !.bookmarkTags = @ \cup {[bookmarkId |-> r.target,
                                                         tagId |-> r.tag]}]
         IN IF r.i < Len(r.data.tags)
            THEN Goto(db2, [r EXCEPT !.i = @ + 1], "tag_find")
            ELSE Goto(db2, r, r.after)

\* prisma.bookmark.findUnique({ where: { id: bookmark.id }, include }) and the return
CbRefetch(db, r) ==
    LET found == RowsById(db.bookmarks, r.target)
    IN IF found = {}
       THEN Throw(db, r, "BookmarkError", "BOOKMARK_CREATION_FAILED", 500)
       ELSE Return(db, r, 201, <<Hydrate(db, TheRow(found))>>, <<>>)

-----------------------------------------------------------------------------
(* BookmarkService.getBookmarkById *)

GbFind(db, r) ==
    LET found == FindOwnedLiveBookmark(db, r.bookmarkId, r.userId)
    IN IF found = {}
       THEN NotFound(db, r)
       ELSE Return(db, r, 200, <<Hydrate(db, TheRow(found))>>, <<>>)

-----------------------------------------------------------------------------
(* BookmarkService.updateBookmark *)

\* existingBookmark = prisma.bookmark.findFirst({ where: { id, userId, deletedAt: null } })
UbFind(db, r) ==
    IF FindOwnedLiveBookmark(db, r.bookmarkId, r.userId) = {}
    THEN NotFound(db, r)
    ELSE Goto(db, [r EXCEPT !.target = r.bookmarkId], "ub_update")

\* the update that writes every column: an undefined field becomes null or false
OverwrittenRow(b, data) ==
    [b EXCEPT !.personalTitle = OrNullStr(data.personalTitle),
              !.personalNote = OrNullStr(data.personalNote),
              !.categoryId = OrNullId(data.categoryId),
              !.isPublic = IF data.isPublic = <<>> THEN FALSE ELSE data.isPublic[1]]

\* the row after prisma.bookmark.update's data: an undefined field is left as it is
UpdatedRow(b, data) ==
    [b EXCEPT !.personalTitle = IF data.personalTitle = UndefStr THEN @ ELSE data.personalTitle,
              !.personalNote = IF data.personalNote = UndefStr THEN @ ELSE data.personalNote,
              !.categoryId = IF data.categoryId = UndefId THEN @ ELSE data.categoryId,
              !.isPublic = IF data.isPublic = <<>> THEN @ ELSE data.isPublic[1]]

\* prisma.bookmark.update({ where: { id: bookmarkId }, data: { personalTitle, ... } })
UbUpdate(db, r) ==
    LET found == RowsById(db.bookmarks, r.bookmarkId)
        next == IF r.data.tags # UndefTags THEN "ub_deleteLinks" ELSE "ub_refetch"
    IN IF found = {}
       THEN ThrowPrisma(db, r, "P2025")
       ELSE IF ~CategoryFkOk(db, OrNullId(r.data.categoryId))
       THEN ThrowPrisma(db, r, "P2003")
       ELSE Goto([db EXCEPT !.bookmarks = (@ \ found) \cup {UpdatedRow(TheRow(found), r.data)}],
                 r, next)

\* the update without its deleteMany: the tag list is added to the links kept
UbKeepLinks(db, r) == Out(db, TagLoopEntry(r, "ub_refetch"))

\* prisma.bookmarkTag.deleteMany({ where: { bookmarkId } })
UbDeleteLinks(db, r) ==
    Out([db EXCEPT !.bookmarkTags = {l \in @ : l.bookmarkId # r.bookmarkId}],
        TagLoopEntry(r, "ub_refetch"))

\* prisma.bookmark.findUnique({ where: { id: bookmarkId }, include }) and the return
UbRefetch(db, r) ==
    LET found == RowsById(db.bookmarks, r.bookmarkId)
    IN IF found = {}
       THEN Throw(db, r, "BookmarkError", "BOOKMARK_UPDATE_FAILED", 500)
       ELSE Return(db, r, 200, <<Hydrate(db, TheRow(found))>>, <<>>)

-----------------------------------------------------------------------------
(* BookmarkService.deleteBookmark *)

DbFind(db, r) ==
    IF FindOwnedLiveBookmark(db, r.bookmarkId, r.userId) = {}
    THEN NotFound(db, r)
    ELSE Goto(db, r, "db_update")

\* prisma.bookmark.update({ where: { id }, data: { deletedAt: new Date() } })
DbUpdate(db, r) ==
    LET found == RowsById(db.bookmarks, r.bookmarkId)
    IN IF found = {}
       THEN ThrowPrisma(db, r, "P2025")
       ELSE Return([db EXCEPT !.bookmarks = (@ \ found) \cup
                                  {[TheRow(found) EXCEPT !.deletedAt = db.clock]}],
                   r, 200, <<>>, <<>>)

-----------------------------------------------------------------------------
(* BookmarkService.addTagsToBookmark *)

AtFind(db, r) ==
    IF FindOwnedLiveBookmark(db, r.bookmarkId, r.userId) = {}
    THEN NotFound(db, r)
    ELSE Goto(db, [r EXCEPT !.target = r.bookmarkId], "at_findTags")

\* userTags = prisma.tag.findMany({ where: { id: { in: tagIds }, userId } })
\* if (userTags.length !== tagIds.length) throw INVALID_TAGS
AtFindTags(db, r) ==
    LET userTags == {t \in db.tags : t.id \in Range(r.data.tagIds) /\ t.userId = r.userId}
    IN IF Cardinality(userTags) # Len(r.data.tagIds)
       THEN Throw(db, r, "BookmarkError", "INVALID_TAGS", 400)
       ELSE IF Len(r.data.tagIds) = 0
       THEN Return(db, r, 200, <<>>, <<>>)
       ELSE Goto(db, [r EXCEPT !.i = 1], "at_upsert")

\* the link inserted with bookmarkTag.create: an existing link is a P2002
AtCreate(db, r) ==
    LET tagId == r.data.tagIds[r.i]
        db2 == [db EXCEPT !.bookmarkTags = @ \cup {[bookmarkId |-> r.bookmarkId,
                                                     tagId |-> tagId]}]
    IN IF ~LinkFree(db, r.bookmarkId, tagId)
       THEN ThrowPrisma(db, r, "P2002")
       ELSE IF r.i < Len(r.data.tagIds)
       THEN Goto(db2, [r EXCEPT !.i = @ + 1], "at_upsert")
       ELSE Return(db2, r, 200, <<>>, <<>>)

\* prisma.bookmarkTag.upsert({ where: { bookmarkId_tagId }, update: {}, create: {...} })
AtUpsert(db, r) ==
    LET tagId == r.data.tagIds[r.i]
        db2 == IF ~LinkFree(db, r.bookmarkId, tagId) THEN db
               ELSE [db EXCEPT !.bookmarkTags = @ \cup {[bookmarkId |-> r.bookmarkId,
                                                         tagId |-> tagId]}]
    IN IF LinkFree(db, r.bookmarkId, tagId) /\ ~LinkFkOk(db, r.bookmarkId, tagId)
       THEN ThrowPrisma(db, r, "P2003")
       ELSE IF r.i < Len(r.data.tagIds)
       THEN Goto(db2, [r EXCEPT !.i = @ + 1], "at_upsert")
       ELSE Return(db2, r, 200, <<>>, <<>>)

-----------------------------------------------------------------------------
(* BookmarkService.removeTagFromBookmark *)

RtFind(db, r) ==
    IF FindOwnedLiveBookmark(db, r.bookmarkId, r.userId) = {}
    THEN NotFound(db, r)
    ELSE Goto(db, r, "rt_delete")

\* prisma.bookmarkTag.deleteMany({ where: { bookmarkId, tagId } })
RtDelete(db, r) ==
    Return([db EXCEPT !.bookmarkTags = @ \ LinkRows(db, r.bookmarkId, r.tagId)],
           r, 200, <<>>, <<>>)

-----------------------------------------------------------------------------
(* BookmarkService.updateBookmarkCategory *)

\* if (categoryId): null and the empty string are falsy
Truthy(categoryId) == categoryId \notin {NullId, EmptyId}

\* existingBookmark lookup; then if (categoryId) the category lookup, else the update
UcFind(db, r) ==
    IF FindOwnedLiveBookmark(db, r.bookmarkId, r.userId) = {}
    THEN NotFound(db, r)
    ELSE Goto(db, r, IF Truthy(r.data.categoryId) THEN "uc_findCategory" ELSE "uc_update")

\* category = prisma.category.findFirst({ where: { id: categoryId, userId } })
UcFindCategory(db, r) ==
    IF FindOwnedCategory(db, r.data.categoryId, r.userId) = {}
    THEN Throw(db, r, "BookmarkError", "INVALID_CATEGORY", 400)
    ELSE Goto(db, r, "uc_update")

\* prisma.bookmark.update({ where: { id: bookmarkId }, data: { categoryId } })
UcUpdate(db, r) ==
    LET found == RowsById(db.bookmarks, r.bookmarkId)
    IN IF found = {}
       THEN ThrowPrisma(db, r, "P2025")
       ELSE IF ~CategoryFkOk(db, r.data.categoryId)
       THEN ThrowPrisma(db, r, "P2003")
       ELSE Return([db EXCEPT !.bookmarks = (@ \ found) \cup
                                  {[TheRow(found) EXCEPT !.categoryId = r.data.categoryId]}],
                   r, 200, <<>>, <<>>)

-----------------------------------------------------------------------------
(* BookmarkService.getBookmarks *)

\* { contains: search } on a nullable text column
Contains(s, q) ==
    /\ s # NullStr
    /\ \E k \in 1..(Len(s) - Len(q) + 1) : SubSeq(s, k, k + Len(q) - 1) = q

\* whereCondition without userId: the filters alone
ListWhereAnyOwner(db, userId, data) ==
    {b \in db.bookmarks :
        /\ b.deletedAt = NullTime
        /\ (data.categoryId # UndefId => b.categoryId = data.categoryId)
        /\ (data.isPublic # <<>> => b.isPublic = data.isPublic[1])
        /\ (data.search \notin {UndefStr, ""} =>
               \/ Contains(b.personalTitle, data.search)
               \/ Contains(b.personalNote, data.search)
               \/ \E m \in RowsById(db.websiteMetadata, b.websiteMetadataId) :
                      Contains(m.title, data.search) \/ Contains(m.url, data.search)
               \/ \E t \in db.tags :
                      LinkRows(db, b.id, t.id) # {} /\ Contains(t.name, data.search))}

\* whereCondition of getBookmarks
ListWhere(db, userId, data) ==
    {b \in db.bookmarks :
        /\ b.userId = userId
        /\ b.deletedAt = NullTime
        /\ (data.categoryId # UndefId => b.categoryId = data.categoryId)
        /\ (data.isPublic # <<>> => b.isPublic = data.isPublic[1])
        /\ (data.search \notin {UndefStr, ""} =>
               \/ Contains(b.personalTitle, data.search)
               \/ Contains(b.personalNote, data.search)
               \/ \E m \in RowsById(db.websiteMetadata, b.websiteMetadataId) :
                      Contains(m.title, data.search) \/ Contains(m.url, data.search)
               \/ \E t \in db.tags :
                      LinkRows(db, b.id, t.id) # {} /\ Contains(t.name, data.search))}

\* orderBy: { createdAt: 'desc' }: rows are created in id order
RECURSIVE NewestFirst(_)
NewestFirst(rows) ==
    IF rows = {} THEN <<>>
    ELSE LET newest == CHOOSE b \in rows : \A c \in rows : c.createdAt <= b.createdAt
         IN <<newest>> \o NewestFirst(rows \ {newest})

\* skip, take
Page(s, skip, take) ==
    SubSeq(s, skip + 1, IF skip + take < Len(s) THEN skip + take ELSE Len(s))

\* the quotient rounded down instead of up
FloorDiv(n, d) == n \div d

\* Math.ceil(totalCount / limit)
CeilDiv(n, d) == (n + d - 1) \div d

\* totalCount = prisma.bookmark.count({ where: whereCondition })
GlCount(db, r) ==
    Goto(db, [r EXCEPT !.count = Cardinality(ListWhere(db, r.userId, r.data))], "gl_findMany")

\* bookmarks = prisma.bookmark.findMany({ where, skip, take, orderBy, include }), return
GlFindMany(db, r) ==
    LET rows == NewestFirst(ListWhere(db, r.userId, r.data))
        page == Page(rows, (r.data.page - 1) * r.data.limit, r.data.limit)
        totalPages == CeilDiv(r.count, r.data.limit)
    IN Return(db, r, 200, [k \in 1..Len(page) |-> Hydrate(db, page[k])],
              [currentPage |-> r.data.page, totalPages |-> totalPages,
               totalCount |-> r.count, limit |-> r.data.limit,
               hasNext |-> r.data.page < totalPages, hasPrev |-> r.data.page > 1])

-----------------------------------------------------------------------------
(* TagService *)

\* createTag without its duplicate lookup: the insert is attempted at once
CtCreateUnchecked(db, r) == Goto(db, r, "ct_create")

\* createTag: existingTag = prisma.tag.findUnique({ where: { userId_name } })
CtFind(db, r) ==
    IF TagsByUserName(db, r.userId, r.data.name) # {}
    THEN Throw(db, r, "AppError", "TAG_ALREADY_EXISTS", 400)
    ELSE Goto(db, r, "ct_create")

\* createTag: prisma.tag.create({ data: { name, userId } }) and the returned tag
CtCreate(db, r) ==
    IF ~TagNameFree(db, r.userId, r.data.name)
    THEN ThrowPrisma(db, r, "P2002")
    ELSE LET key == <<r.userId, r.data.name>>
             row == [id |-> TagId(r.userId, r.data.name, db.seq.tags[key] + 1),
                     userId |-> r.userId, name |-> r.data.name]
         IN Return([db EXCEPT !.tags = @ \cup {row}, !.seq.tags[key] = @ + 1],
                   r, 201, <<row>>, <<>>)

\* getTagWithBookmarks: tag = prisma.tag.findFirst({ where: { id: tagId, userId } })
GtFind(db, r) ==
    IF FindOwnedTag(db, r.tagId, r.userId) = {}
    THEN Throw(db, r, "AppError", "TAG_NOT_FOUND", 404)
    ELSE Goto(db, r, "gt_query")

\* where: { userId, tags: { some: { tagId } } } of getTagWithBookmarks
TagBookmarksWhere(db, userId, tagId) ==
    {b \in db.bookmarks : b.userId = userId /\ LinkRows(db, b.id, tagId) # {}}

\* bookmark.personalTitle || bookmark.websiteMetadata?.title || 'Untitled'
TagBookmarkItem(db, b) ==
    LET m == TheRow(RowsById(db.websiteMetadata, b.websiteMetadataId))
    IN [id |-> b.id,
        title |-> IF b.personalTitle \notin {NullStr, ""} THEN b.personalTitle
                  ELSE IF m.title \notin {NullStr, ""} THEN m.title ELSE "Untitled",
        url |-> m.url]

\* getTagWithBookmarks: $transaction([bookmark.findMany(...), bookmark.count(...)]), return
GtQuery(db, r) ==
    LET where == TagBookmarksWhere(db, r.userId, r.tagId)
        rows == NewestFirst(where)
        page == Page(rows, (r.data.page - 1) * r.data.limit, r.data.limit)
        total == Cardinality(where)
    IN Return(db, r, 200, [k \in 1..Len(page) |-> TagBookmarkItem(db, page[k])],
              [page |-> r.data.page, limit |-> r.data.limit, total |-> total,
               totalPages |-> CeilDiv(total, r.data.limit)])

\* tagNames.filter(name => !existingTagNames.includes(name))
RECURSIVE FilterNew(_, _)
FilterNew(names, existing) ==
    IF names = <<>> THEN <<>>
    ELSE (IF Head(names) \in existing THEN <<>> ELSE <<Head(names)>>)
         \o FilterNew(Tail(names), existing)

\* findOrCreateTags: existingTags = prisma.tag.findMany({ where: { userId, name: { in } } })
FtFindExisting(db, r) ==
    LET existing == {t.name : t \in {u \in db.tags : u.userId = r.userId
                                                      /\ u.name \in Range(r.data.tags)}}
        newTagNames == FilterNew(r.data.tags, existing)
    IN Goto(db, [r EXCEPT !.newNames = newTagNames],
            IF Len(newTagNames) > 0 THEN "ft_createMany" ELSE "ft_findAll")

\* findOrCreateTags: prisma.tag.createMany({ data: newTagNames.map(...) }), one INSERT
FtCreateMany(db, r) ==
    LET n == Len(r.newNames)
        distinct == \A j, k \in 1..n : j # k => r.newNames[j] # r.newNames[k]
        free == \A k \in 1..n : TagNameFree(db, r.userId, r.newNames[k])
    IN IF ~(distinct /\ free)
       THEN ThrowPrisma(db, r, "P2002")
       ELSE Goto([db EXCEPT !.tags = @ \cup
                                {[id |-> TagId(r.userId, r.newNames[k],
                                               db.seq.tags[<<r.userId, r.newNames[k]>>] + 1),
                                  userId |-> r.userId, name |-> r.newNames[k]] : k \in 1..n},
                            !.seq.tags = [key \in DOMAIN @ |->
                                IF key[1] = r.userId /\ key[2] \in Range(r.newNames)
                                THEN @[key] + 1 ELSE @[key]]],
                 r, "ft_findAll")

\* the rows of a query with no orderBy, in some order
RECURSIVE InSomeOrder(_)
InSomeOrder(S) ==
    IF S = {} THEN <<>>
    ELSE LET x == CHOOSE y \in S : TRUE IN <<x>> \o InSomeOrder(S \ {x})

\* findOrCreateTags: allTags = prisma.tag.findMany(...); return allTags.map(tag => tag.id)
FtFindAll(db, r) ==
    Return(db, r, 200,
           InSomeOrder({t.id : t \in {u \in db.tags : u.userId = r.userId
                                                    /\ u.name \in Range(r.data.tags)}}),
           <<>>)

-----------------------------------------------------------------------------
(* CategoryService.createCategory *)

\* existingCategory = prisma.category.findFirst({ where: { userId, name } })
CcFind(db, r) ==
    IF CategoriesByUserName(db, r.userId, r.data.name) # {}
    THEN Throw(db, r, "CategoryError", "CATEGORY_ALREADY_EXISTS", 400)
    ELSE Goto(db, r, "cc_create")

\* prisma.category.create({ data: { ...data, userId } })
CcCreate(db, r) ==
    IF ~CategoryNameFree(db, r.userId, r.data.name)
    THEN ThrowPrisma(db, r, "P2002")
    ELSE LET key == <<r.userId, r.data.name>>
             row == [id |-> CategoryId(r.userId, r.data.name, db.seq.categories[key] + 1),
                     userId |-> r.userId, name |-> r.data.name]
         IN Return([db EXCEPT !.categories = @ \cup {row}, !.seq.categories[key] = @ + 1],
                   r, 201, <<row>>, <<>>)

-----------------------------------------------------------------------------
(* Execution *)

(* CategoryService: getCategoriesByUserId, getCategoryById, updateCategory,
   deleteCategory.  The category a call names travels in data.categoryId. *)

\* getCategoriesByUserId: Promise.all([category.findMany({ where: { userId }, skip,
\* take, orderBy }), category.count({ where: { userId } })]); rows carry no
\* createdAt here, so their order is left open
LcQuery(db, r) ==
    LET where == {c \in db.categories : c.userId = r.userId}
        rows == InSomeOrder(where)
    IN Return(db, r, 200, Page(rows, (r.data.page - 1) * r.data.limit, r.data.limit),
              [page |-> r.data.page, limit |-> r.data.limit, total |-> Cardinality(where),
               totalPages |-> CeilDiv(Cardinality(where), r.data.limit)])

\* getCategoryById: prisma.category.findFirst({ where: { id, userId } }), null if none
GcFind(db, r) ==
    LET found == FindOwnedCategory(db, r.data.categoryId, r.userId)
    IN Return(db, r, 200, IF found = {} THEN <<>> ELSE <<TheRow(found)>>, <<>>)

CategoryNotFound(db, r) == Throw(db, r, "CategoryError", "CATEGORY_NOT_FOUND", 404)

\* updateCategory: existingCategory = prisma.category.findFirst({ where: { id, userId } })
YcFind(db, r) ==
    IF FindOwnedCategory(db, r.data.categoryId, r.userId) = {}
    THEN CategoryNotFound(db, r)
    ELSE Goto(db, r, "yc_update")

\* a row renamed to name keeps @@unique([userId, name]) if no other row holds it
RenameFree(table, row, name) ==
    \A o \in table : (o.userId = row.userId /\ o.name = name) => o.id = row.id

\* updateCategory: prisma.category.update({ where: { id }, data })
YcUpdate(db, r) ==
    LET found == RowsById(db.categories, r.data.categoryId)
    IN IF found = {}
       THEN ThrowPrisma(db, r, "P2025")
       ELSE IF r.data.name = UndefStr
       THEN Return(db, r, 200, <<TheRow(found)>>, <<>>)
       ELSE IF ~RenameFree(db.categories, TheRow(found), r.data.name)
       THEN ThrowPrisma(db, r, "P2002")
       ELSE LET row == [TheRow(found) EXCEPT !.name = r.data.name]
            IN Return([db EXCEPT !.categories = (@ \ found) \cup {row}], r, 200, <<row>>, <<>>)

\* deleteCategory: existingCategory = prisma.category.findFirst({ where: { id, userId } })
XcFind(db, r) ==
    IF FindOwnedCategory(db, r.data.categoryId, r.userId) = {}
    THEN CategoryNotFound(db, r)
    ELSE Goto(db, r, "xc_delete")

\* no referential action: bookmarks keep the categoryId of the deleted category
KeepCategoryRef(rows, categoryId) == rows

\* Bookmark.category onDelete: SetNull
SetNullCategory(rows, categoryId) ==
    {IF b.categoryId = categoryId THEN [b EXCEPT !.categoryId = NullId] ELSE b : b \in rows}

\* deleteCategory: prisma.category.delete({ where: { id } })
XcDelete(db, r) ==
    LET found == RowsById(db.categories, r.data.categoryId)
    IN IF found = {}
       THEN ThrowPrisma(db, r, "P2025")
       ELSE Return([db EXCEPT !.categories = @ \ found,
                              !.bookmarks = SetNullCategory(@, r.data.categoryId)],
                   r, 200, <<>>, <<>>)

\* CategoryController: the HTTP status of a finished category call.  createCategory
\* answers 400 only for err.code === 'P2002'; updateCategory and deleteCategory
\* answer a CategoryError with its statusCode (updateCategory also P2002 with 400);
\* getCategoryById answers 404 for null; anything else is 500
CategoryReply(op, result) ==
    IF result.ok
    THEN IF op = "getCategoryById" /\ result.body = <<>> THEN 404 ELSE result.status
    ELSE CASE op = "createCategory" -> IF result.code = "P2002" THEN 400 ELSE 500
           [] op = "updateCategory" ->
                 IF result.error = "CategoryError" THEN result.status
                 ELSE IF result.code = "P2002" THEN 400 ELSE 500
           [] op = "deleteCategory" ->
                 IF result.error = "CategoryError" THEN result.status ELSE 500
           [] OTHER -> 500

-----------------------------------------------------------------------------
(* TagService: getTags, getTagById, updateTag, deleteTag *)

\* getTags with no search: $transaction([tag.findMany({ where: { userId }, skip, take,
\* orderBy }), tag.count({ where })]); the order of the rows is left open
LtQuery(db, r) ==
    LET where == {t \in db.tags : t.userId = r.userId}
        rows == InSomeOrder(where)
    IN Return(db, r, 200, Page(rows, (r.data.page - 1) * r.data.limit, r.data.limit),
              [page |-> r.data.page, limit |-> r.data.limit, total |-> Cardinality(where),
               totalPages |-> CeilDiv(Cardinality(where), r.data.limit)])

TagNotFound(db, r) == Throw(db, r, "AppError", "TAG_NOT_FOUND", 404)

\* getTagById: prisma.tag.findFirst({ where: { id: tagId, userId } }) and the return
TgFind(db, r) ==
    LET found == FindOwnedTag(db, r.tagId, r.userId)
    IN IF found = {} THEN TagNotFound(db, r)
       ELSE Return(db, r, 200, <<TheRow(found)>>, <<>>)

\* updateTag: existingTag = prisma.tag.findFirst({ where: { id: tagId, userId } })
YtFind(db, r) ==
    IF FindOwnedTag(db, r.tagId, r.userId) = {}
    THEN TagNotFound(db, r)
    ELSE Goto(db, r, IF r.data.name \notin {UndefStr, ""} THEN "yt_findDuplicate"
                     ELSE "yt_update")

\* the duplicate lookup without NOT: { id: tagId }: the row itself counts
YtFindNamed(db, r) ==
    IF \E t \in db.tags : t.userId = r.userId /\ t.name = r.data.name
    THEN Throw(db, r, "AppError", "TAG_ALREADY_EXISTS", 400)
    ELSE Goto(db, r, "yt_update")

\* updateTag: duplicateTag = tag.findFirst({ where: { userId, name, NOT: { id: tagId } } })
YtFindDuplicate(db, r) ==
    IF \E t \in db.tags : t.userId = r.userId /\ t.name = r.data.name /\ t.id # r.tagId
    THEN Throw(db, r, "AppError", "TAG_ALREADY_EXISTS", 400)
    ELSE Goto(db, r, "yt_update")

\* updateTag: prisma.tag.update({ where: { id: tagId }, data }) and the return
YtUpdate(db, r) ==
    LET found == RowsById(db.tags, r.tagId)
    IN IF found = {}
       THEN ThrowPrisma(db, r, "P2025")
       ELSE IF r.data.name = UndefStr
       THEN Return(db, r, 200, <<TheRow(found)>>, <<>>)
       ELSE IF ~RenameFree(db.tags, TheRow(found), r.data.name)
       THEN ThrowPrisma(db, r, "P2002")
       ELSE LET row == [TheRow(found) EXCEPT !.name = r.data.name]
            IN Return([db EXCEPT !.tags = (@ \ found) \cup {row}], r, 200, <<row>>, <<>>)

\* deleteTag: tag = prisma.tag.findFirst({ where: { id: tagId, userId } })
XtFind(db, r) ==
    IF FindOwnedTag(db, r.tagId, r.userId) = {}
    THEN TagNotFound(db, r)
    ELSE Goto(db, r, "xt_delete")

\* deleteTag: prisma.tag.delete({ where: { id: tagId } }); BookmarkTag.tag onDelete: Cascade
XtDelete(db, r) ==
    LET found == RowsById(db.tags, r.tagId)
    IN IF found = {}
       THEN ThrowPrisma(db, r, "P2025")
       ELSE Return([db EXCEPT !.tags = @ \ found,
                              !.bookmarkTags = {l \in @ : l.tagId # r.tagId}],
                   r, 200, <<>>, <<>>)

-----------------------------------------------------------------------------

\* one awaited statement of the call r on the database db
Step(db, r) ==
    CASE r.pc = "cb_findMetadata" -> CbFindMetadata(db, r)
      [] r.pc = "cb_createMetadata" -> CbCreateMetadata(db, r)
      [] r.pc = "cb_createBookmark" -> CbCreateBookmark(db, r)
      [] r.pc = "tag_find" -> TagFind(db, r)
      [] r.pc = "tag_create" -> TagCreate(db, r)
      [] r.pc = "tag_link" -> TagLink(db, r)
      [] r.pc = "cb_refetch" -> CbRefetch(db, r)
      [] r.pc = "gb_find" -> GbFind(db, r)
      [] r.pc = "ub_find" -> UbFind(db, r)
      [] r.pc = "ub_update" -> UbUpdate(db, r)
      [] r.pc = "ub_deleteLinks" -> UbDeleteLinks(db, r)
      [] r.pc = "ub_refetch" -> UbRefetch(db, r)
      [] r.pc = "db_find" -> DbFind(db, r)
      [] r.pc = "db_update" -> DbUpdate(db, r)
      [] r.pc = "at_find" -> AtFind(db, r)
      [] r.pc = "at_findTags" -> AtFindTags(db, r)
      [] r.pc = "at_upsert" -> AtUpsert(db, r)
      [] r.pc = "rt_find" -> RtFind(db, r)
      [] r.pc = "rt_delete" -> RtDelete(db, r)
      [] r.pc = "uc_find" -> UcFind(db, r)
      [] r.pc = "uc_findCategory" -> UcFindCategory(db, r)
      [] r.pc = "uc_update" -> UcUpdate(db, r)
      [] r.pc = "gl_count" -> GlCount(db, r)
      [] r.pc = "gl_findMany" -> GlFindMany(db, r)
      [] r.pc = "ct_find" -> CtFind(db, r)
      [] r.pc = "ct_create" -> CtCreate(db, r)
      [] r.pc = "gt_find" -> GtFind(db, r)
      [] r.pc = "gt_query" -> GtQuery(db, r)
      [] r.pc = "ft_findExisting" -> FtFindExisting(db, r)
      [] r.pc = "ft_createMany" -> FtCreateMany(db, r)
      [] r.pc = "ft_findAll" -> FtFindAll(db, r)
      [] r.pc = "cc_find" -> CcFind(db, r)
      [] r.pc = "cc_create" -> CcCreate(db, r)
      [] r.pc = "lc_query" -> LcQuery(db, r)
      [] r.pc = "gc_find" -> GcFind(db, r)
      [] r.pc = "yc_find" -> YcFind(db, r)
      [] r.pc = "yc_update" -> YcUpdate(db, r)
      [] r.pc = "xc_find" -> XcFind(db, r)
      [] r.pc = "xc_delete" -> XcDelete(db, r)
      [] r.pc = "lt_query" -> LtQuery(db, r)
      [] r.pc = "tg_find" -> TgFind(db, r)
      [] r.pc = "yt_find" -> YtFind(db, r)
      [] r.pc = "yt_findDuplicate" -> YtFindDuplicate(db, r)
      [] r.pc = "yt_update" -> YtUpdate(db, r)
      [] r.pc = "xt_find" -> XtFind(db, r)
      [] r.pc = "xt_delete" -> XtDelete(db, r)

\* the call r run to its return or throw with no other call in between
RECURSIVE Run(_, _)
Run(db, r) ==
    IF r.pc = "done" THEN Out(db, r)
    ELSE LET s == Step(db, r) IN Run(s.db, s.r)

\* the outcome of a whole call started on db
Exec(db, op, userId, bookmarkId, tagId, data) ==
    Run(db, Call(op, userId, bookmarkId, tagId, data))

-----------------------------------------------------------------------------
(* State machine *)

Procs == 1..MaxProcs

NoCall == [op |-> "none", userId |-> "", bookmarkId |-> NullId, tagId |-> NullId,
           data |-> NoData, pre |-> EmptyDB, result |-> NoResult]

Init ==
    /\ websiteMetadata = {}
    /\ categories = {}
    /\ bookmarks = {}
    /\ tags = {}
    /\ bookmarkTags = {}
    /\ seq = EmptyDB.seq
    /\ clock = 1
    /\ last = NoCall
    /\ req = [p \in Procs |-> Idle]

\* the store after a step or call that leaves it as db
Store(db) ==
    /\ websiteMetadata' = db.websiteMetadata
    /\ categories' = db.categories
    /\ bookmarks' = db.bookmarks
    /\ tags' = db.tags
    /\ bookmarkTags' = db.bookmarkTags
    /\ seq' = db.seq
    /\ clock' = db.clock

\* a controller method up to its reply: the whole service call with no other call
\* running, from the invocation to the return or throw; last keeps the call, the
\* store before it and its outcome until the reply is sent
Serve(op, userId, bookmarkId, tagId, data) ==
    LET out == Exec(DB, op, userId, bookmarkId, tagId, data)
    IN /\ last = NoCall
       /\ Store(out.db)
       /\ last' = [op |-> op, userId |-> userId, bookmarkId |-> bookmarkId, tagId |-> tagId,
                   data |-> data, pre |-> DB, result |-> out.r.result]
       /\ UNCHANGED req

\* reply.status(...).send(...): the call is answered
SendReply ==
    /\ last # NoCall
    /\ last' = NoCall
    /\ UNCHANGED <<websiteMetadata, categories, bookmarks, tags, bookmarkTags, seq, clock, req>>

CreateBookmark(userId, data) ==
    /\ seq.bookmarks < MaxBookmarks
    /\ Serve("createBookmark", userId, NullId, NullId, data)

GetBookmarks(userId, data) ==
    Serve("getBookmarks", userId, NullId, NullId, data)

GetBookmarkById(userId, bookmarkId) ==
    Serve("getBookmarkById", userId, bookmarkId, NullId, NoData)

UpdateBookmark(userId, bookmarkId, data) ==
    Serve("updateBookmark", userId, bookmarkId, NullId, data)

DeleteBookmark(userId, bookmarkId) ==
    Serve("deleteBookmark", userId, bookmarkId, NullId, NoData)

AddTagsToBookmark(userId, bookmarkId, tagIds) ==
    Serve("addTagsToBookmark", userId, bookmarkId, NullId, [NoData EXCEPT !.tagIds = tagIds])

RemoveTagFromBookmark(userId, bookmarkId, tagId) ==
    Serve("removeTagFromBookmark", userId, bookmarkId, tagId, NoData)

UpdateBookmarkCategory(userId, bookmarkId, categoryId) ==
    Serve("updateBookmarkCategory", userId, bookmarkId, NullId,
          [NoData EXCEPT !.categoryId = categoryId])

CreateTag(userId, name) ==
    Serve("createTag", userId, NullId, NullId, [NoData EXCEPT !.name = name])

GetTagWithBookmarks(userId, tagId) ==
    Serve("getTagWithBookmarks", userId, NullId, tagId,
          [NoData EXCEPT !.page = 1, !.limit = DefaultLimit])

FindOrCreateTags(userId, tagNames) ==
    Serve("findOrCreateTags", userId, NullId, NullId, [NoData EXCEPT !.tags = tagNames])

CreateCategory(userId, name) ==
    Serve("createCategory", userId, NullId, NullId, [NoData EXCEPT !.name = name])

-----------------------------------------------------------------------------
(* Spec: the bookmark life cycle (create with tags, read, update, soft delete) *)

\* createBookmarkSchema bodies: isPublic defaults to false
NewBookmark(url) == [NoData EXCEPT !.url = url, !.isPublic = <<FALSE>>]

SentCreates ==
    {NewBookmark("https://x.io"),
     [NewBookmark("https://x.io") EXCEPT !.tags = <<"dev", "ref">>],
     [NewBookmark("https://x.io") EXCEPT !.tags = <<"dev", "dev">>]}

SentUpdates ==
    {NoData,
     [NoData EXCEPT !.tags = <<"dev">>],
     [NoData EXCEPT !.tags = <<"dev", "dev">>],
     [NoData EXCEPT !.tags = <<>>]}

\* getBookmarksSchema: page defaults to 1 and limit to 20
DefaultQuery == [NoData EXCEPT !.page = 1, !.limit = DefaultLimit]

Next ==
    \/ \E u \in Users, d \in SentCreates : CreateBookmark(u, d)
    \/ \E u \in Users : GetBookmarks(u, DefaultQuery)
    \/ \E u \in Users, b \in BookmarkIds : GetBookmarkById(u, b)
    \/ \E u \in Users, b \in BookmarkIds, d \in SentUpdates : UpdateBookmark(u, b, d)
    \/ \E u \in Users, b \in BookmarkIds : DeleteBookmark(u, b)
    \/ SendReply

Spec == Init /\ [][Next]_vars

-----------------------------------------------------------------------------
(* Vocabulary of the properties *)

NotFoundReply == [status |-> 404, code |-> "BOOKMARK_NOT_FOUND"]

Distinct(s) == \A j, k \in 1..Len(s) : j # k => s[j] # s[k]

\* the names of the tags attached to a bookmark
AttachedNames(db, bookmarkId) ==
    {t.name : t \in {u \in db.tags : LinkRows(db, bookmarkId, u.id) # {}}}

LinksOf(db, bookmarkId) == {l \in db.bookmarkTags : l.bookmarkId = bookmarkId}

\* the bookmark a finished create or update call is about
Subject(call) ==
    IF call.op = "createBookmark" THEN call.result.body[1].bookmark.id ELSE call.bookmarkId

\* request bodies of a foreign caller, tried on every bookmark of every reachable store
TriedUpdates ==
    {[NoData EXCEPT !.personalTitle = title, !.isPublic = pub, !.tags = t] :
        title \in {UndefStr, "docs"}, pub \in {<<>>, <<TRUE>>},
        t \in {UndefTags, <<>>, <<"ref">>}}

\* C1 (ownership isolation): a getBookmarkById, updateBookmark or deleteBookmark by
\* a user who does not own the bookmark is answered 404 BOOKMARK_NOT_FOUND, returns
\* no data and leaves the store (the bookmark row and its tag links) as it was
C1_OwnershipIsolation ==
    /\ (/\ last.op \in {"getBookmarkById", "updateBookmark", "deleteBookmark"}
        /\ \E b \in last.pre.bookmarks : b.id = last.bookmarkId /\ b.userId # last.userId)
       => /\ Reply(last.result) = NotFoundReply
          /\ last.result.body = <<>>
          /\ DB = last.pre
    /\ last = NoCall =>
         \A b \in bookmarks : \A u \in Users \ {b.userId} :
             /\ LET out == Exec(DB, "getBookmarkById", u, b.id, NullId, NoData)
                IN Reply(out.r.result) = NotFoundReply /\ out.r.result.body = <<>>
                   /\ out.db = DB
             /\ LET out == Exec(DB, "deleteBookmark", u, b.id, NullId, NoData)
                IN Reply(out.r.result) = NotFoundReply /\ out.db = DB
             /\ \A d \in TriedUpdates :
                   LET out == Exec(DB, "updateBookmark", u, b.id, NullId, d)
                   IN Reply(out.r.result) = NotFoundReply /\ out.r.result.body = <<>>
                      /\ out.db = DB

\* a user updated the tags of another user's live, tagged bookmark and got 404
C1_Witness ==
    /\ last.op = "updateBookmark"
    /\ last.data.tags # UndefTags
    /\ \E b \in last.pre.bookmarks :
          /\ b.id = last.bookmarkId /\ b.userId # last.userId /\ b.deletedAt = NullTime
          /\ LinksOf(DB, b.id) # {}
    /\ Reply(last.result) = NotFoundReply

\* C4 (atomic creation): a createBookmark that fails leaves no Bookmark row and no
\* BookmarkTag row of its own behind
C4_CreateIsAtomic ==
    (last.op = "createBookmark" /\ ~last.result.ok)
       => bookmarks = last.pre.bookmarks /\ bookmarkTags = last.pre.bookmarkTags

\* C5 (tag set = most recent list): after a successful create or update with a list
\* of distinct names exactly those names are attached (and returned); an update
\* without a tag list leaves the links as they were
C5_TagSetIsTheList ==
    /\ (/\ last.op \in {"createBookmark", "updateBookmark"}
        /\ last.result.ok
        /\ last.data.tags # UndefTags
        /\ Distinct(last.data.tags))
       => /\ AttachedNames(DB, Subject(last)) = Range(last.data.tags)
          /\ {t.name : t \in last.result.body[1].tags} = Range(last.data.tags)
          /\ Cardinality(LinksOf(DB, Subject(last))) = Len(last.data.tags)
    /\ (last.op = "updateBookmark" /\ last.result.ok /\ last.data.tags = UndefTags)
       => LinksOf(DB, last.bookmarkId) = LinksOf(last.pre, last.bookmarkId)

\* a bookmark tagged {dev, ref} was updated with ["dev"] and is left with exactly {dev}
C5_Witness ==
    /\ last.op = "updateBookmark"
    /\ last.result.ok
    /\ last.data.tags = <<"dev">>
    /\ AttachedNames(last.pre, last.bookmarkId) = {"dev", "ref"}
    /\ AttachedNames(DB, last.bookmarkId) = {"dev"}

\* the ids of the bookmarks a getBookmarks call returns
ListedIds(result) == {result.body[k].bookmark.id : k \in 1..Len(result.body)}

\* C6 (soft delete): a successful deleteBookmark leaves the row in place with a
\* deletedAt; from then on the owner's getBookmarkById and deleteBookmark answer
\* 404 BOOKMARK_NOT_FOUND and the default getBookmarks omits the bookmark; no call
\* removes a row or revives a deleted one
C6_SoftDelete ==
    /\ (last.op = "deleteBookmark" /\ last.result.ok)
       => \E b \in bookmarks :
             /\ b.id = last.bookmarkId /\ b.userId = last.userId /\ b.deletedAt # NullTime
             /\ [b EXCEPT !.deletedAt = NullTime] \in last.pre.bookmarks
    /\ \A b \in bookmarks : b.deletedAt # NullTime =>
          /\ Reply(Exec(DB, "getBookmarkById", b.userId, b.id, NullId, NoData).r.result)
                = NotFoundReply
          /\ LET out == Exec(DB, "deleteBookmark", b.userId, b.id, NullId, NoData)
             IN Reply(out.r.result) = NotFoundReply /\ out.db = DB
          /\ LET out == Exec(DB, "getBookmarks", b.userId, NullId, NullId, DefaultQuery)
             IN out.r.result.ok /\ b.id \notin ListedIds(out.r.result)
    /\ last # NoCall =>
          \A b \in last.pre.bookmarks :
             /\ RowsById(bookmarks, b.id) # {}
             /\ b.deletedAt # NullTime => b \in bookmarks

\* the owner deleted a bookmark a second time and got 404; the row is still there
C6_Witness ==
    /\ last.op = "deleteBookmark"
    /\ Reply(last.result) = NotFoundReply
    /\ \E b \in bookmarks :
          b.id = last.bookmarkId /\ b.userId = last.userId /\ b.deletedAt # NullTime

\* C9 (names de-duplicated): a createBookmark or updateBookmark (on the caller's
\* live bookmark) or findOrCreateTags given a list that repeats a name succeeds
\* and attaches / returns exactly the distinct names
C9_RepeatedNamesDeduplicated ==
    /\ (/\ last.op \in {"createBookmark", "updateBookmark"}
        /\ last.data.tags # UndefTags
        /\ ~Distinct(last.data.tags)
        /\ last.op = "updateBookmark" =>
              FindOwnedLiveBookmark(last.pre, last.bookmarkId, last.userId) # {})
       => /\ last.result.ok
          /\ AttachedNames(DB, Subject(last)) = Range(last.data.tags)
    /\ (/\ last.op = "findOrCreateTags"
        /\ ~Distinct(last.data.tags))
       => /\ last.result.ok
          /\ {t.name : t \in {u \in tags : u.id \in Range(last.result.body)}}
                = Range(last.data.tags)

-----------------------------------------------------------------------------
(* SpecTags: tags created directly and by name, attached, detached and listed *)

\* TagController: an AppError is answered with its statusCode, anything else with 500
TagReply(result) ==
    IF result.ok THEN result.status
    ELSE IF result.error = "AppError" THEN result.status ELSE 500

\* ids that name no row: the serial 0 is never allocated
AbsentBookmarkId == BookmarkId(0)
AbsentCategoryId == CategoryId("u1", "Work", 0)
AbsentTagId == TagId("u1", "dev", 0)

TaggedCreates ==
    {NewBookmark("https://x.io"),
     [NewBookmark("https://x.io") EXCEPT !.tags = <<"dev">>],
     [NewBookmark("https://x.io") EXCEPT !.tags = <<"dev", "ref">>]}

SentTagIds == {<<t>> : t \in TagIds} \cup {<<TagId("u1", "dev", 1), TagId("u1", "dev", 1)>>}

SentTagNames == {<<"dev">>, <<"ref", "dev">>, <<"ref", "ref">>}

NextTags ==
    \/ \E u \in Users, n \in TagNames : CreateTag(u, n)
    \/ \E u \in Users, names \in SentTagNames : FindOrCreateTags(u, names)
    \/ \E u \in Users, d \in TaggedCreates :
          seq.bookmarks < MaxRefBookmarks /\ CreateBookmark(u, d)
    \/ \E u \in Users, b \in BookmarkIds : DeleteBookmark(u, b)
    \/ \E u \in Users, b \in BookmarkIds, ids \in SentTagIds : AddTagsToBookmark(u, b, ids)
    \/ \E u \in Users, b \in BookmarkIds, t \in TagIds : RemoveTagFromBookmark(u, b, t)
    \/ \E u \in Users, t \in TagIds : GetTagWithBookmarks(u, t)
    \/ SendReply

SpecTags == Init /\ [][NextTags]_vars

-----------------------------------------------------------------------------
(* SpecCategories: categories created and referenced by bookmarks *)

CategorizedCreates ==
    {[NewBookmark("https://x.io") EXCEPT !.categoryId = c] :
        c \in {UndefId, AbsentCategoryId} \cup CategoryIds}

CategorizedUpdates ==
    {[NoData EXCEPT !.categoryId = c] : c \in {AbsentCategoryId} \cup CategoryIds}
    \cup {[NoData EXCEPT !.personalTitle = "docs"]}

NextCategories ==
    \/ \E u \in Users, n \in CategoryNames : CreateCategory(u, n)
    \/ \E u \in Users, d \in CategorizedCreates :
          seq.bookmarks < MaxRefBookmarks /\ CreateBookmark(u, d)
    \/ \E u \in Users, b \in BookmarkIds : GetBookmarkById(u, b)
    \/ \E u \in Users, b \in BookmarkIds, d \in CategorizedUpdates : UpdateBookmark(u, b, d)
    \/ \E u \in Users, b \in BookmarkIds, c \in {NullId, AbsentCategoryId} \cup CategoryIds :
          UpdateBookmarkCategory(u, b, c)
    \/ \E u \in Users, b \in BookmarkIds : DeleteBookmark(u, b)
    \/ SendReply

SpecCategories == Init /\ [][NextCategories]_vars

-----------------------------------------------------------------------------
(* Properties of tag and category references *)

\* C8 (tag uniqueness, idempotent resolution): at most one Tag row per
\* (userId, name); createTag of a name the user already holds is rejected with 400
\* and adds nothing, a name the user does not hold is created whoever else holds
\* it; resolving a held name (create/update tag loop, findOrCreateTags) keeps the
\* one row and, on success, uses it
C8_TagUniqueness ==
    /\ \A t1, t2 \in tags : (t1.userId = t2.userId /\ t1.name = t2.name) => t1 = t2
    /\ last.op = "createTag" =>
          IF TagsByUserName(last.pre, last.userId, last.data.name) # {}
          THEN ~last.result.ok /\ TagReply(last.result) = 400 /\ DB = last.pre
          ELSE /\ last.result.ok /\ TagReply(last.result) = 201
               /\ tags = last.pre.tags \cup {last.result.body[1]}
               /\ last.result.body[1].userId = last.userId
               /\ last.result.body[1].name = last.data.name
    /\ (last.op \in {"createBookmark", "updateBookmark", "findOrCreateTags"}
        /\ last.data.tags # UndefTags)
       => \A k \in 1..Len(last.data.tags) :
             LET held == TagsByUserName(last.pre, last.userId, last.data.tags[k])
             IN held # {} =>
                  /\ TagsByUserName(DB, last.userId, last.data.tags[k]) = held
                  /\ (last.result.ok /\ last.op = "findOrCreateTags")
                        => TheRow(held).id \in Range(last.result.body)
                  /\ (last.result.ok /\ last.op # "findOrCreateTags")
                        => LinkRows(DB, Subject(last), TheRow(held).id) # {}

\* a createTag was rejected as a duplicate while both users hold a tag of that name
C8_Witness ==
    /\ last.op = "createTag"
    /\ ~last.result.ok
    /\ \A u \in Users : TagsByUserName(DB, u, last.data.name) # {}

\* filters of getBookmarks tried on every reachable store
TriedQueries ==
    {[DefaultQuery EXCEPT !.categoryId = c, !.isPublic = pub, !.search = q] :
        c \in {UndefId} \cup CategoryIds, pub \in {<<>>, <<TRUE>>, <<FALSE>>},
        q \in {UndefStr, "x"}}

\* C7 (deleted bookmarks are never returned): getBookmarkById, getBookmarks under
\* any categoryId / isPublic / search filter, and getTagWithBookmarks return no
\* bookmark whose deletedAt is set
C7_NoDeletedBookmarkReturned ==
    /\ (last.op \in {"getBookmarkById", "getBookmarks"} /\ last.result.ok)
       => \A k \in 1..Len(last.result.body) :
             last.result.body[k].bookmark.deletedAt = NullTime
    /\ (last.op = "getTagWithBookmarks" /\ last.result.ok)
       => \A k \in 1..Len(last.result.body) :
             TheRow(RowsById(bookmarks, last.result.body[k].id)).deletedAt = NullTime
    /\ last = NoCall =>
          \A u \in Users : \A q \in TriedQueries :
             LET res == Exec(DB, "getBookmarks", u, NullId, NullId, q).r.result
             IN \A k \in 1..Len(res.body) : res.body[k].bookmark.deletedAt = NullTime

\* two runs of one call that differ only in the id they name end alike
SameOutcome(o1, o2) ==
    /\ Reply(o1.r.result) = Reply(o2.r.result)
    /\ o1.r.result.body = o2.r.result.body
    /\ o1.db = o2.db

\* C2 (non-ownership is non-existence): a call naming a bookmark, category or tag
\* of another user ends exactly as the same call naming an id that does not exist
\* (same reply, same data, same store), and no reply shows another user's category
C2_ForeignIsAbsent ==
    /\ last = NoCall =>
         \A u \in Users :
            /\ \A b \in {x \in bookmarks : x.userId # u} :
                  /\ \A op \in {"getBookmarkById", "deleteBookmark", "updateBookmark"} :
                        SameOutcome(Exec(DB, op, u, b.id, NullId, NoData),
                                    Exec(DB, op, u, AbsentBookmarkId, NullId, NoData))
                  /\ \A t \in TagIds :
                        /\ SameOutcome(
                             Exec(DB, "addTagsToBookmark", u, b.id, NullId,
                                  [NoData EXCEPT !.tagIds = <<t>>]),
                             Exec(DB, "addTagsToBookmark", u, AbsentBookmarkId, NullId,
                                  [NoData EXCEPT !.tagIds = <<t>>]))
                        /\ SameOutcome(
                             Exec(DB, "removeTagFromBookmark", u, b.id, t, NoData),
                             Exec(DB, "removeTagFromBookmark", u, AbsentBookmarkId, t, NoData))
                  /\ \A c \in {NullId} \cup CategoryIds :
                        SameOutcome(
                          Exec(DB, "updateBookmarkCategory", u, b.id, NullId,
                               [NoData EXCEPT !.categoryId = c]),
                          Exec(DB, "updateBookmarkCategory", u, AbsentBookmarkId, NullId,
                               [NoData EXCEPT !.categoryId = c]))
            /\ \A c \in {x \in categories : x.userId # u} :
                  /\ seq.bookmarks < MaxBookmarks =>
                        SameOutcome(
                          Exec(DB, "createBookmark", u, NullId, NullId,
                               [NewBookmark("https://x.io") EXCEPT !.categoryId = c.id]),
                          Exec(DB, "createBookmark", u, NullId, NullId,
                               [NewBookmark("https://x.io") EXCEPT
                                   !.categoryId = AbsentCategoryId]))
                  /\ \A b \in {x \in bookmarks : x.userId = u /\ x.deletedAt = NullTime} :
                        /\ SameOutcome(
                             Exec(DB, "updateBookmark", u, b.id, NullId,
                                  [NoData EXCEPT !.categoryId = c.id]),
                             Exec(DB, "updateBookmark", u, b.id, NullId,
                                  [NoData EXCEPT !.categoryId = AbsentCategoryId]))
                        /\ SameOutcome(
                             Exec(DB, "updateBookmarkCategory", u, b.id, NullId,
                                  [NoData EXCEPT !.categoryId = c.id]),
                             Exec(DB, "updateBookmarkCategory", u, b.id, NullId,
                                  [NoData EXCEPT !.categoryId = AbsentCategoryId]))
            /\ \A t \in {x \in tags : x.userId # u} :
                  \A b \in {x \in bookmarks : x.userId = u /\ x.deletedAt = NullTime} :
                     /\ SameOutcome(
                          Exec(DB, "addTagsToBookmark", u, b.id, NullId,
                               [NoData EXCEPT !.tagIds = <<t.id>>]),
                          Exec(DB, "addTagsToBookmark", u, b.id, NullId,
                               [NoData EXCEPT !.tagIds = <<AbsentTagId>>]))
                     /\ SameOutcome(
                          Exec(DB, "removeTagFromBookmark", u, b.id, t.id, NoData),
                          Exec(DB, "removeTagFromBookmark", u, b.id, AbsentTagId, NoData))
    /\ (/\ last.op \in {"createBookmark", "getBookmarkById", "updateBookmark", "getBookmarks"}
        /\ last.result.ok)
       => \A k \in 1..Len(last.result.body) :
             \A c \in last.result.body[k].category : c.userId = last.userId

\* C10 (category validated before assignment): a createBookmark, or an
\* updateBookmark of the caller's live bookmark, given a categoryId that names no
\* category of the caller is rejected and no Bookmark row is created or changed
C10_CategoryValidated ==
    (/\ last.op \in {"createBookmark", "updateBookmark"}
     /\ last.data.categoryId \notin {UndefId, NullId}
     /\ FindOwnedCategory(last.pre, last.data.categoryId, last.userId) = {}
     /\ last.op = "updateBookmark" =>
           FindOwnedLiveBookmark(last.pre, last.bookmarkId, last.userId) # {})
    => /\ ~last.result.ok
       /\ bookmarks = last.pre.bookmarks

-----------------------------------------------------------------------------
(* SpecConc: createBookmark requests in flight together.  Each await of a request
   handler yields to the event loop, so the Prisma calls of the requests in
   flight interleave one statement at a time. *)

RacingCreates ==
    {NewBookmark("https://x.io"),
     NewBookmark("https://y.io"),
     [NewBookmark("https://x.io") EXCEPT !.tags = <<"dev">>]}

\* createBookmark calls in flight that have not inserted their Bookmark row yet
Inserting == {p \in Procs : req[p].op = "createBookmark" /\ req[p].target = NullId
                                                           /\ req[p].pc # "done"}

\* a request arrives and its handler is invoked
Start(p, userId, data) ==
    /\ req[p] = Idle
    /\ seq.bookmarks + Cardinality(Inserting) < MaxBookmarks
    /\ req' = [req EXCEPT ![p] = Call("createBookmark", userId, NullId, NullId, data)]
    /\ UNCHANGED <<websiteMetadata, categories, bookmarks, tags, bookmarkTags, seq, clock, last>>

\* the handler of p runs its next Prisma call
StepProc(p) ==
    /\ req[p].pc \notin {"idle", "done"}
    /\ LET out == Step(DB, req[p])
       IN /\ Store(out.db)
          /\ req' = [req EXCEPT ![p] = out.r]
    /\ UNCHANGED last

\* the handler of p replies
Finish(p) ==
    /\ req[p].pc = "done"
    /\ req' = [req EXCEPT ![p] = Idle]
    /\ UNCHANGED <<websiteMetadata, categories, bookmarks, tags, bookmarkTags, seq, clock, last>>

NextConc ==
    \/ \E p \in Procs, u \in Users, d \in RacingCreates : Start(p, u, d)
    \/ \E p \in Procs : StepProc(p)
    \/ \E p \in Procs : Finish(p)

SpecConc == Init /\ [][NextConc]_vars

\* C3 (metadata deduplication): whatever createBookmark calls run, one after the
\* other or interleaved, there is at most one WebsiteMetadata row per url; the
\* Bookmark row of a call references the row of the call's url, so bookmarks of
\* one url share it; get-or-create of a url that has a row returns that row and
\* leaves the store as it is
C3_MetadataDeduplicated ==
    /\ \A m1, m2 \in websiteMetadata : m1.url = m2.url => m1 = m2
    /\ \A b \in bookmarks : RowsById(websiteMetadata, b.websiteMetadataId) # {}
    /\ \A p \in Procs :
          /\ (req[p].op = "createBookmark" /\ req[p].target # NullId)
             => \E m \in MetadataByUrl(DB, req[p].data.url) :
                   TheRow(RowsById(bookmarks, req[p].target)).websiteMetadataId = m.id
          /\ (req[p].pc = "cb_findMetadata" /\ MetadataByUrl(DB, req[p].data.url) # {})
             => LET out == Step(DB, req[p])
                IN /\ out.db = DB
                   /\ out.r.pc = "cb_createBookmark"
                   /\ out.r.metaId = TheRow(MetadataByUrl(DB, req[p].data.url)).id

\* two users hold bookmarks of one url that share its single row, and a request
\* that lost the race for inserting that row is about to reply
C3_Witness ==
    /\ \E b1, b2 \in bookmarks :
          b1.userId # b2.userId /\ b1.websiteMetadataId = b2.websiteMetadataId
    /\ \E p \in Procs :
          /\ req[p].pc = "done" /\ req[p].result.code = "P2002" /\ req[p].metaId = NullId
          /\ Cardinality(MetadataByUrl(DB, req[p].data.url)) = 1

-----------------------------------------------------------------------------
(* Properties of failures and races *)

\* C11 (atomic tag replacement): an updateBookmark that fails leaves the
\* bookmark's row and its BookmarkTag rows exactly as they were before the call
C11_UpdateIsAtomic ==
    (last.op = "updateBookmark" /\ ~last.result.ok)
       => /\ bookmarks = last.pre.bookmarks
          /\ LinksOf(DB, last.bookmarkId) = LinksOf(last.pre, last.bookmarkId)

\* C12 (concurrent first-time metadata creation): createBookmark calls racing on a
\* url never fail in get-or-create of its WebsiteMetadata row: every finished call
\* got past it holding the row of its url
C12_MetadataRaceIsCaught ==
    \A p \in Procs :
       (req[p].op = "createBookmark" /\ req[p].pc = "done")
          => /\ req[p].metaId # NullId
             /\ req[p].metaId = TheRow(MetadataByUrl(DB, req[p].data.url)).id

\* C13 (concurrent tag creation): createBookmark calls of one user racing to
\* create a tag name never fail in the tag resolution: every finished call that
\* inserted its bookmark with a list of distinct names succeeded and is linked to
\* the one tag of each name
C13_TagRaceIsCaught ==
    \A p \in Procs :
       (/\ req[p].op = "createBookmark" /\ req[p].pc = "done"
        /\ req[p].target # NullId
        /\ req[p].data.tags # UndefTags /\ Distinct(req[p].data.tags))
          => /\ req[p].result.ok
             /\ \A k \in 1..Len(req[p].data.tags) :
                   \E t \in TagsByUserName(DB, req[p].userId, req[p].data.tags[k]) :
                      LinkRows(DB, req[p].target, t.id) # {}

-----------------------------------------------------------------------------
(* SpecPaging: lists of several bookmarks read page by page *)

\* getBookmarksSchema: page >= 1 and 1 <= limit <= 100
PagedQueries ==
    {[NoData EXCEPT !.page = p, !.limit = l] :
        p \in 1..MaxPage, l \in {1, 2, 3, DefaultLimit, MaxLimit}}

NextPaging ==
    \/ \E u \in Users :
          /\ seq.bookmarks < MaxListed
          /\ Serve("createBookmark", u, NullId, NullId, NewBookmark("https://x.io"))
    \/ \E u \in Users, n \in 1..MaxListed : DeleteBookmark(u, BookmarkId(n))
    \/ \E u \in Users, q \in PagedQueries : GetBookmarks(u, q)
    \/ SendReply

SpecPaging == Init /\ [][NextPaging]_vars

\* the live bookmarks of a user
LiveOf(db, userId) == {b \in db.bookmarks : b.userId = userId /\ b.deletedAt = NullTime}

\* C14 (pagination arithmetic): getBookmarks with page >= 1 and limit in 1..100
\* succeeds with totalCount = the number of matching bookmarks, totalPages =
\* ceil(totalCount / limit) (the least number of pages of limit rows that hold
\* totalCount rows), hasNext = (page < totalPages), hasPrev = (page > 1); with no
\* matching bookmark totalCount = 0, totalPages = 0 and the list is empty
C14_PaginationArithmetic ==
    last.op = "getBookmarks" =>
       LET pg == last.result.pagination
           total == Cardinality(ListWhere(last.pre, last.userId, last.data))
           page == last.data.page
           limit == last.data.limit
       IN /\ last.result.ok
          /\ pg.totalCount = total
          /\ pg.totalPages >= 0
          /\ pg.totalPages * limit >= total
          /\ pg.totalPages > 0 => (pg.totalPages - 1) * limit < total
          /\ pg.hasNext = (page < pg.totalPages)
          /\ pg.hasPrev = (page > 1)
          /\ pg.currentPage = page /\ pg.limit = limit
          /\ total = 0 => (pg.totalPages = 0 /\ last.result.body = <<>>)

\* page 1 with limit 2 over 5 matching bookmarks: 3 pages, a next and no previous
C14_Witness ==
    /\ last.op = "getBookmarks"
    /\ last.data.page = 1 /\ last.data.limit = 2
    /\ Cardinality(LiveOf(last.pre, last.userId)) = 5
    /\ last.result.pagination.totalPages = 3
    /\ last.result.pagination.hasNext
    /\ ~last.result.pagination.hasPrev

-----------------------------------------------------------------------------
(* SpecList: bookmarks that differ in category, visibility, title, note and tags,
   listed under filters *)

ListedCreates ==
    {NewBookmark("https://x.io"),
     [NewBookmark("https://y.io") EXCEPT !.isPublic = <<TRUE>>, !.personalTitle = "docs",
                                         !.personalNote = "read x later"],
     [NewBookmark("https://y.io") EXCEPT !.tags = <<"dev">>],
     [NewBookmark("https://y.io") EXCEPT !.categoryId = CategoryId("u1", "Work", 1)]}

SentQueries ==
    {DefaultQuery,
     [DefaultQuery EXCEPT !.isPublic = <<TRUE>>],
     [DefaultQuery EXCEPT !.search = "x"],
     [DefaultQuery EXCEPT !.search = "dev"],
     [DefaultQuery EXCEPT !.categoryId = CategoryId("u1", "Work", 1)]}

NextList ==
    \/ \E n \in CategoryNames : CreateCategory("u1", n)
    \/ \E u \in Users, d \in ListedCreates : CreateBookmark(u, d)
    \/ \E u \in Users, b \in BookmarkIds : DeleteBookmark(u, b)
    \/ \E u \in Users, q \in SentQueries : GetBookmarks(u, q)
    \/ SendReply

SpecList == Init /\ [][NextList]_vars

\* the texts of a bookmark that a search looks into
SearchedTexts(db, b) ==
    ({b.personalTitle, b.personalNote}
       \cup UNION {{m.title, m.url} : m \in RowsById(db.websiteMetadata, b.websiteMetadataId)}
       \cup {t.name : t \in {x \in db.tags : LinkRows(db, b.id, x.id) # {}}}) \ {NullStr}

\* the bookmarks a query of a user is to list
Matching(db, userId, q) ==
    {b \in db.bookmarks :
        /\ b.userId = userId
        /\ b.deletedAt = NullTime
        /\ q.categoryId = UndefId \/ b.categoryId = q.categoryId
        /\ q.isPublic = <<>> \/ b.isPublic = q.isPublic[1]
        /\ q.search = UndefStr \/ \E text \in SearchedTexts(db, b) :
              \E j, k \in 1..Len(text) : SubSeq(text, j, k) = q.search}

\* filters of every combination, tried on every reachable store
AllQueries ==
    {[DefaultQuery EXCEPT !.categoryId = c, !.isPublic = pub, !.search = q] :
        c \in {UndefId, CategoryId("u1", "Work", 1)}, pub \in {<<>>, <<TRUE>>, <<FALSE>>},
        q \in {UndefStr, "x", "dev", "doc", "zzz"}}

\* the result lists exactly the bookmarks of S, newest first, and counts them
Lists(result, S) ==
    /\ result.ok
    /\ result.pagination.totalCount = Cardinality(S)
    /\ {result.body[k].bookmark : k \in 1..Len(result.body)} = S
    /\ Len(result.body) = Cardinality(S)

-----------------------------------------------------------------------------
(* CategoryService and TagService calls on single rows *)

GetCategoriesByUserId(userId) ==
    Serve("getCategoriesByUserId", userId, NullId, NullId, DefaultQuery)

GetCategoryById(userId, categoryId) ==
    Serve("getCategoryById", userId, NullId, NullId, [NoData EXCEPT !.categoryId = categoryId])

UpdateCategory(userId, categoryId, name) ==
    Serve("updateCategory", userId, NullId, NullId,
          [NoData EXCEPT !.categoryId = categoryId, !.name = name])

DeleteCategory(userId, categoryId) ==
    Serve("deleteCategory", userId, NullId, NullId, [NoData EXCEPT !.categoryId = categoryId])

GetTags(userId) == Serve("getTags", userId, NullId, NullId, DefaultQuery)

GetTagById(userId, tagId) == Serve("getTagById", userId, NullId, tagId, NoData)

UpdateTag(userId, tagId, name) ==
    Serve("updateTag", userId, NullId, tagId, [NoData EXCEPT !.name = name])

DeleteTag(userId, tagId) == Serve("deleteTag", userId, NullId, tagId, NoData)

\* C16 (duplicate category creation): createCategory of a name the user already
\* holds is answered 400, adds no row and leaves the store as it was; a name the
\* user does not hold is created, whoever else holds it
C16_DuplicateCategoryRejected ==
    last.op = "createCategory" =>
       IF CategoriesByUserName(last.pre, last.userId, last.data.name) # {}
       THEN CategoryReply(last.op, last.result) = 400 /\ DB = last.pre
       ELSE /\ CategoryReply(last.op, last.result) = 201
            /\ categories = last.pre.categories \cup {last.result.body[1]}
            /\ last.result.body[1].userId = last.userId
            /\ last.result.body[1].name = last.data.name

-----------------------------------------------------------------------------
(* SpecRename: categories and tags created and renamed *)

AllCategoryIds == {CategoryId(u, n, 1) : u \in Users, n \in CategoryNamesEver}

NextRename ==
    \/ \E n \in CategoryNamesEver : CreateCategory("u1", n)
    \/ \E n \in CategoryNames : CreateCategory("u2", n)
    \/ \E n \in TagNames : CreateTag("u1", n)
    \/ CreateTag("u2", "dev")
    \/ \E u \in Users, c \in AllCategoryIds, n \in CategoryNamesEver : UpdateCategory(u, c, n)
    \/ \E u \in Users, t \in TagIds, n \in TagNames : UpdateTag(u, t, n)
    \/ SendReply

SpecRename == Init /\ [][NextRename]_vars

\* another row of the same owner already holds the name
NameTaken(table, userId, id, name) ==
    \E o \in table : o.userId = userId /\ o.name = name /\ o.id # id

\* the table with the row of that id renamed and every other row as it was
Renamed(table, id, name) ==
    {IF o.id = id THEN [o EXCEPT !.name = name] ELSE o : o \in table}

\* C17 (rename duplicate check): an updateCategory or updateTag of the caller's
\* row to a name that another row of the caller holds is answered 400 and leaves
\* the store as it was; to any other name, the row's own current name included,
\* it succeeds and renames that row only
C17_RenameDuplicateCheck ==
    /\ (last.op = "updateCategory"
        /\ FindOwnedCategory(last.pre, last.data.categoryId, last.userId) # {})
       => IF NameTaken(last.pre.categories, last.userId, last.data.categoryId, last.data.name)
          THEN CategoryReply(last.op, last.result) = 400 /\ DB = last.pre
          ELSE /\ CategoryReply(last.op, last.result) = 200
               /\ categories = Renamed(last.pre.categories, last.data.categoryId, last.data.name)
               /\ tags = last.pre.tags
    /\ (last.op = "updateTag" /\ FindOwnedTag(last.pre, last.tagId, last.userId) # {})
       => IF NameTaken(last.pre.tags, last.userId, last.tagId, last.data.name)
          THEN TagReply(last.result) = 400 /\ DB = last.pre
          ELSE /\ TagReply(last.result) = 200
               /\ tags = Renamed(last.pre.tags, last.tagId, last.data.name)
               /\ categories = last.pre.categories

\* a rename of a category to the name of the caller's other category was answered
\* 400, and the caller holds a tag that was renamed to another name before
C17_Witness ==
    /\ last.op = "updateCategory"
    /\ NameTaken(last.pre.categories, last.userId, last.data.categoryId, last.data.name)
    /\ CategoryReply(last.op, last.result) = 400
    /\ \E t \in tags : t.userId = last.userId /\ t.id # TagId(t.userId, t.name, 1)

-----------------------------------------------------------------------------
(* SpecDelete: categories and tags referenced by a bookmark and hard-deleted *)

RECURSIVE SumOver(_, _)
SumOver(f, S) ==
    IF S = {} THEN 0
    ELSE LET x == CHOOSE y \in S : TRUE IN f[x] + SumOver(f, S \ {x})

\* category and tag rows removed so far: the rows ever inserted minus those present
HardDeletes ==
    SumOver(seq.categories, DOMAIN seq.categories) + SumOver(seq.tags, DOMAIN seq.tags)
       - Cardinality(categories) - Cardinality(tags)

\* ids a client sends: those of the rows it was shown, or one that names nothing
KnownCategoryIds == {c.id : c \in categories} \cup {AbsentCategoryId}
KnownTagIds == {t.id : t \in tags} \cup {AbsentTagId}

NextDelete ==
    \/ \E u \in Users : CreateCategory(u, "Work")
    \/ \E n \in TagNames : CreateTag("u1", n)
    \/ \E c \in {UndefId, CategoryId("u1", "Work", 1)} :
          /\ seq.bookmarks < MaxRefBookmarks
          /\ CreateBookmark("u1", [NewBookmark("https://x.io") EXCEPT !.categoryId = c])
    \/ \E b \in BookmarkIds, t \in tags : AddTagsToBookmark("u1", b, <<t.id>>)
    \/ \E u \in Users, c \in KnownCategoryIds :
          HardDeletes < MaxDeletes /\ DeleteCategory(u, c)
    \/ \E u \in Users, t \in KnownTagIds :
          HardDeletes < MaxDeletes /\ DeleteTag(u, t)
    \/ SendReply

SpecDelete == Init /\ [][NextDelete]_vars

-----------------------------------------------------------------------------
(* SpecRows: categories and tags of two users, read, updated and deleted by
   either of them *)

NextRows ==
    \/ \E u \in Users : CreateCategory(u, "Work")
    \/ \E u \in Users : CreateTag(u, "dev")
    \/ \E u \in Users, c \in KnownCategoryIds :
          \/ GetCategoryById(u, c)
          \/ UpdateCategory(u, c, "Work")
          \/ HardDeletes < MaxDeletes /\ DeleteCategory(u, c)
    \/ \E u \in Users, t \in KnownTagIds :
          \/ GetTagById(u, t)
          \/ \E n \in TagNames : UpdateTag(u, t, n)
          \/ GetTagWithBookmarks(u, t)
          \/ HardDeletes < MaxDeletes /\ DeleteTag(u, t)
    \/ \E u \in Users : GetCategoriesByUserId(u) \/ GetTags(u)
    \/ SendReply

SpecRows == Init /\ [][NextRows]_vars

\* C18 (effects of hard deletes): a deleteCategory by the owner removes that
\* category row only, deletes no bookmark and changes on the bookmarks nothing
\* but the categoryId, which becomes null exactly where it was the deleted id;
\* a deleteTag by the owner removes that tag row only and exactly the
\* BookmarkTag rows of that tag; every other table is as it was before
C18_HardDeleteEffects ==
    /\ (last.op = "deleteCategory"
        /\ FindOwnedCategory(last.pre, last.data.categoryId, last.userId) # {})
       => /\ CategoryReply(last.op, last.result) = 200
          /\ categories = {c \in last.pre.categories : c.id # last.data.categoryId}
          /\ Cardinality(bookmarks) = Cardinality(last.pre.bookmarks)
          /\ \A o \in last.pre.bookmarks :
                \E b \in bookmarks :
                   /\ b = [o EXCEPT !.categoryId = b.categoryId]
                   /\ b.categoryId = IF o.categoryId = last.data.categoryId
                                     THEN NullId ELSE o.categoryId
          /\ tags = last.pre.tags
          /\ bookmarkTags = last.pre.bookmarkTags
          /\ websiteMetadata = last.pre.websiteMetadata
    /\ (last.op = "deleteTag" /\ FindOwnedTag(last.pre, last.tagId, last.userId) # {})
       => /\ TagReply(last.result) = 200
          /\ tags = {t \in last.pre.tags : t.id # last.tagId}
          /\ bookmarkTags = {l \in last.pre.bookmarkTags : l.tagId # last.tagId}
          /\ bookmarks = last.pre.bookmarks
          /\ categories = last.pre.categories
          /\ websiteMetadata = last.pre.websiteMetadata

\* a category that a bookmark referenced was deleted while that bookmark carried a
\* tag and another category existed: the bookmark is still there, without
\* a category and with its tag
C18_Witness ==
    /\ last.op = "deleteCategory"
    /\ last.result.ok
    /\ \E o \in last.pre.bookmarks :
          /\ o.categoryId = last.data.categoryId
          /\ \E l \in bookmarkTags : l.bookmarkId = o.id
          /\ \E b \in bookmarks : b.id = o.id /\ b.categoryId = NullId
    /\ categories # {}

\* the call was made on a category row that exists and belongs to another user
OnForeignCategory ==
    \E c \in last.pre.categories : c.id = last.data.categoryId /\ c.userId # last.userId

\* the call was made on a tag row that exists and belongs to another user
OnForeignTag ==
    \E t \in last.pre.tags : t.id = last.tagId /\ t.userId # last.userId

\* C19 (category and tag ownership isolation): a getCategoryById, updateCategory
\* or deleteCategory on another user's category, and a getTagById, updateTag,
\* deleteTag or getTagWithBookmarks on another user's tag, is answered 404 with no
\* data and leaves the store as it was; getCategoriesByUserId and getTags return
\* only rows of the requester
C19_CategoryTagIsolation ==
    /\ (last.op \in {"getCategoryById", "updateCategory", "deleteCategory"} /\ OnForeignCategory)
       => /\ CategoryReply(last.op, last.result) = 404
          /\ last.result.body = <<>>
          /\ DB = last.pre
    /\ (last.op \in {"getTagById", "updateTag", "deleteTag", "getTagWithBookmarks"}
        /\ OnForeignTag)
       => /\ TagReply(last.result) = 404
          /\ last.result.body = <<>>
          /\ DB = last.pre
    /\ last.op = "getCategoriesByUserId"
       => Range(last.result.body) \subseteq {c \in last.pre.categories : c.userId = last.userId}
    /\ last.op = "getTags"
       => Range(last.result.body) \subseteq {t \in last.pre.tags : t.userId = last.userId}

\* a user asked to rename another user's tag to a name that is free for both and
\* was answered 404, while the same user holds a category and a tag of their own
C19_Witness ==
    /\ last.op = "updateTag"
    /\ OnForeignTag
    /\ ~NameTaken(last.pre.tags, last.userId, last.tagId, last.data.name)
    /\ \A t \in last.pre.tags : t.id = last.tagId => t.name # last.data.name
    /\ TagReply(last.result) = 404
    /\ \E c \in categories : c.userId = last.userId
    /\ \E t \in tags : t.userId = last.userId

-----------------------------------------------------------------------------
(* SpecAuth: the bookmark routes behind their preHandler *)

\* env.JWT_SECRET, the key @fastify/jwt signs and verifies with
JwtSecret == "secret"

\* the bearer tokens sent: none, one of u1 signed with another key, and the
\* token the server issued to u1
Tokens ==
    {NoToken, [userId |-> "u1", key |-> "forged"], [userId |-> "u1", key |-> JwtSecret]}

SignedTokens == {t \in Tokens : t.key = JwtSecret}

\* request.user when no verification succeeded
NoUser == ""

\* the payload of the token read without verifying its signature
JwtDecode(token) == token.userId

\* request.jwtVerify(): the payload of a token signed with the secret, NoUser
\* standing for the throw
JwtVerify(token) == IF token.key = JwtSecret THEN token.userId ELSE NoUser

\* reply.status(401).send({ success: false, error: { code: 'UNAUTHORIZED', ... } })
Unauthorized == [NoResult EXCEPT !.error = "jwtVerify", !.code = "UNAUTHORIZED", !.status = 401]

\* one request per route of bookmarkRoutes, on the first bookmark and the first tag
\* of u1 where the route names one
RouteRequests ==
    {[op |-> "createBookmark", bookmarkId |-> NullId, tagId |-> NullId,
      data |-> [NewBookmark("https://x.io") EXCEPT !.tags = <<"dev">>]],
     [op |-> "getBookmarks", bookmarkId |-> NullId, tagId |-> NullId, data |-> DefaultQuery],
     [op |-> "getBookmarkById", bookmarkId |-> BookmarkId(1), tagId |-> NullId,
      data |-> NoData],
     [op |-> "updateBookmark", bookmarkId |-> BookmarkId(1), tagId |-> NullId,
      data |-> [NoData EXCEPT !.personalTitle = "docs"]],
     [op |-> "deleteBookmark", bookmarkId |-> BookmarkId(1), tagId |-> NullId,
      data |-> NoData],
     [op |-> "addTagsToBookmark", bookmarkId |-> BookmarkId(1), tagId |-> NullId,
      data |-> [NoData EXCEPT !.tagIds = <<TagId("u1", "dev", 1)>>]],
     [op |-> "removeTagFromBookmark", bookmarkId |-> BookmarkId(1),
      tagId |-> TagId("u1", "dev", 1), data |-> NoData],
     [op |-> "updateBookmarkCategory", bookmarkId |-> BookmarkId(1), tagId |-> NullId,
      data |-> [NoData EXCEPT !.categoryId = NullId]]}

\* a request to a bookmark route arrives with its token; the preHandler is next.
\* At most one request with a token of the server and one without are in flight
Receive(p, q, token) ==
    /\ req[p] = Idle
    /\ \A o \in Procs :
          req[o] # Idle => (req[o].token \in SignedTokens) # (token \in SignedTokens)
    /\ q.op = "createBookmark" => seq.bookmarks + Cardinality(Inserting) < MaxRefBookmarks
    /\ req' = [req EXCEPT ![p] = [Idle EXCEPT !.op = q.op, !.bookmarkId = q.bookmarkId,
                                              !.tagId = q.tagId, !.data = q.data,
                                              !.token = token, !.pc = "preHandler"]]
    /\ UNCHANGED <<websiteMetadata, categories, bookmarks, tags, bookmarkTags, seq, clock, last>>

\* authenticate: await request.jwtVerify() sets request.user; when it throws, the
\* catch sends the 401 and the hook resolves without returning the reply, so that
\* the route handler is invoked afterwards or not, as the framework decides
Authenticate(p) ==
    /\ req[p].pc = "preHandler"
    /\ LET user == JwtVerify(req[p].token)
       IN IF user # NoUser
          THEN req' = [req EXCEPT ![p].userId = user, ![p].pc = "handler"]
          ELSE \E invoked \in BOOLEAN :
                  req' = [req EXCEPT ![p].result = Unauthorized,
                                     ![p].pc = IF invoked THEN "handler" ELSE "done"]
    /\ UNCHANGED <<websiteMetadata, categories, bookmarks, tags, bookmarkTags, seq, clock, last>>

\* the controller method up to its service call: userId = request.user.userId is
\* a TypeError when request.user is null, which handleError answers on the reply
\* that was sent already; otherwise the service method is called
Handle(p) ==
    /\ req[p].pc = "handler"
    /\ req' = [req EXCEPT ![p].pc = IF req[p].userId = NoUser THEN "done"
                                    ELSE FirstPc(req[p].op)]
    /\ UNCHANGED <<websiteMetadata, categories, bookmarks, tags, bookmarkTags, seq, clock, last>>

\* the service method of p runs its next Prisma call
StepService(p) ==
    /\ req[p].pc \notin {"preHandler", "handler"}
    /\ StepProc(p)

NextAuth ==
    \/ \E p \in Procs, q \in RouteRequests, t \in Tokens : Receive(p, q, t)
    \/ \E p \in Procs : Authenticate(p)
    \/ \E p \in Procs : Handle(p)
    \/ \E p \in Procs : StepService(p)
    \/ \E p \in Procs : Finish(p)

SpecAuth == Init /\ [][NextAuth]_vars

\* C20 (authentication precedes every core operation): a request to a bookmark
\* route whose token the server did not sign never reaches a statement of the
\* service, is answered 401 UNAUTHORIZED once its preHandler has run, and no step
\* of it changes the store
C20_AuthenticationPrecedes ==
    [][\A p \in Procs :
          (req'[p].op # "idle" /\ req'[p].token \notin SignedTokens)
          => /\ req'[p].pc \in {"preHandler", "handler", "done"}
             /\ req'[p].pc # "preHandler"
                => req'[p].result.status = 401 /\ req'[p].result.code = "UNAUTHORIZED"
             /\ req'[p] # req[p] => DB' = DB]_vars

\* a deleteBookmark with a forged token of the owner was answered while the
\* bookmark it names exists, and the bookmark is still live
C20_Witness ==
    \E p \in Procs :
       /\ req[p].op = "deleteBookmark"
       /\ req[p].token = [userId |-> "u1", key |-> "forged"]
       /\ req[p].pc = "done"
       /\ req[p].result.status = 401
       /\ \E b \in bookmarks : b.id = req[p].bookmarkId /\ b.userId = "u1"
                                                        /\ b.deletedAt = NullTime

-----------------------------------------------------------------------------
(* SpecFields: updateBookmark with every choice of present and omitted fields *)

\* a bookmark created with every personal field set
FullBookmark ==
    [NewBookmark("https://x.io") EXCEPT !.personalTitle = "old", !.personalNote = "keep",
                                        !.categoryId = CategoryId("u1", "Work", 1),
                                        !.isPublic = <<TRUE>>]

\* request bodies of updateBookmarkSchema: each field present or omitted
FieldUpdates ==
    {[NoData EXCEPT !.personalTitle = t, !.personalNote = n, !.categoryId = c,
                    !.isPublic = p] :
        t \in {UndefStr, "docs"}, n \in {UndefStr, "read"},
        c \in {UndefId, CategoryId("u1", "Work", 1)}, p \in {<<>>, <<FALSE>>}}

NextFields ==
    \/ CreateCategory("u1", "Work")
    \/ \E d \in {NewBookmark("https://x.io"), FullBookmark} :
          /\ seq.bookmarks < MaxRefBookmarks
          /\ CreateBookmark("u1", d)
    \/ \E u \in Users, b \in BookmarkIds, d \in FieldUpdates : UpdateBookmark(u, b, d)
    \/ \E b \in BookmarkIds : DeleteBookmark("u1", b)
    \/ SendReply

SpecFields == Init /\ [][NextFields]_vars

-----------------------------------------------------------------------------
(* Two calls running together on rows that exist *)

\* no request is being handled
Quiet == \A p \in Procs : req[p] = Idle

\* besides p at most one request is being handled
OneOther(p) == \E o \in Procs : \A x \in Procs \ {p, o} : req[x] = Idle

\* a request arrives while at most one other is handled, and its service method
\* is invoked in the first free slot; the call stays with its outcome once it is
\* done
Invoke(p, op, userId, bookmarkId, tagId, data) ==
    /\ req[p] = Idle
    /\ \A o \in Procs : o < p => req[o] # Idle
    /\ OneOther(p)
    /\ last = NoCall
    /\ req' = [req EXCEPT ![p] = Call(op, userId, bookmarkId, tagId, data)]
    /\ UNCHANGED <<websiteMetadata, categories, bookmarks, tags, bookmarkTags, seq, clock, last>>

\* a call made and answered before the two calls arrive
Before(served) == Quiet /\ served

\* the two calls that are done, when there are two
BothDone(p, q) == p # q /\ req[p].pc = "done" /\ req[q].pc = "done"

-----------------------------------------------------------------------------
(* SpecTagRace: two updateBookmark calls replacing the tags of one bookmark *)

RacingTagLists == {<<"dev">>, <<"ref">>, <<"dev", "ref">>}

NextTagRace ==
    \/ /\ seq.bookmarks < MaxRefBookmarks
       /\ Before(CreateBookmark("u1", [NewBookmark("https://x.io") EXCEPT !.tags = <<"dev">>]))
    \/ \E n \in TagNames : Before(CreateTag("u1", n))
    \/ SendReply
    \/ \E p \in Procs, b \in bookmarks, g \in RacingTagLists :
          Invoke(p, "updateBookmark", b.userId, b.id, NullId, [NoData EXCEPT !.tags = g])
    \/ \E p \in Procs : StepProc(p)

SpecTagRace == Init /\ [][NextTagRace]_vars

\* C22 (interleaved tag replacement): when two updateBookmark calls on one
\* bookmark that carry tag lists are both done, both succeeded and the names
\* attached to the bookmark are those of one of the two lists
C22_TagSetIsOneOfTheLists ==
    \A p, q \in Procs :
       (BothDone(p, q) /\ req[p].bookmarkId = req[q].bookmarkId)
          => /\ req[p].result.ok
             /\ req[q].result.ok
             /\ AttachedNames(DB, req[p].bookmarkId)
                   \in {Range(req[p].data.tags), Range(req[q].data.tags)}

-----------------------------------------------------------------------------
(* SpecFieldRace: two updateBookmark calls writing fields of one bookmark *)

RacingFieldUpdates ==
    {[NoData EXCEPT !.personalTitle = "docs"],
     [NoData EXCEPT !.personalTitle = "memo"],
     [NoData EXCEPT !.personalNote = "read"],
     [NoData EXCEPT !.personalTitle = "memo", !.personalNote = "later"],
     [NoData EXCEPT !.isPublic = <<TRUE>>],
     [NoData EXCEPT !.categoryId = CategoryId("u1", "Work", 1)]}

NextFieldRace ==
    \/ Before(CreateCategory("u1", "Work"))
    \/ \E d \in {NewBookmark("https://x.io"), FullBookmark} :
          /\ seq.bookmarks < MaxRefBookmarks
          /\ Before(CreateBookmark("u1", d))
    \/ SendReply
    \/ \E p \in Procs, b \in bookmarks, d \in RacingFieldUpdates :
          Invoke(p, "updateBookmark", b.userId, b.id, NullId, d)
    \/ \E p \in Procs : StepProc(p)

SpecFieldRace == Init /\ [][NextFieldRace]_vars

\* the value of a field after two writers: the value of the only call that
\* carries it, or of one of the two when both do; any value when neither does
WrittenBy(value, absent, v1, v2) ==
    /\ (v1 # absent /\ v2 = absent) => value = v1
    /\ (v1 = absent /\ v2 # absent) => value = v2
    /\ (v1 # absent /\ v2 # absent) => value \in {v1, v2}

\* C23 (per-field last-write-wins): when two updateBookmark calls on one bookmark
\* are both done and succeeded, each of personalTitle, personalNote, categoryId
\* and isPublic that only one of them carried has that call's value, and each
\* that both carried has the value of one of them
C23_PerFieldLastWriteWins ==
    \A p, q \in Procs :
       (BothDone(p, q) /\ req[p].bookmarkId = req[q].bookmarkId
                       /\ req[p].result.ok /\ req[q].result.ok)
          => \E b \in bookmarks :
                /\ b.id = req[p].bookmarkId
                /\ WrittenBy(b.personalTitle, UndefStr,
                             req[p].data.personalTitle, req[q].data.personalTitle)
                /\ WrittenBy(b.personalNote, UndefStr,
                             req[p].data.personalNote, req[q].data.personalNote)
                /\ WrittenBy(b.categoryId, UndefId,
                             req[p].data.categoryId, req[q].data.categoryId)
                /\ WrittenBy(<<b.isPublic>>, <<>>, req[p].data.isPublic, req[q].data.isPublic)

\* one call carried a title alone and the other a note alone, each wrote before
\* the other read the bookmark back, and both are done: the bookmark has both
C23_Witness ==
    \E p, q \in Procs :
       /\ BothDone(p, q)
       /\ req[p].bookmarkId = req[q].bookmarkId
       /\ req[p].result.ok /\ req[q].result.ok
       /\ req[p].data = [NoData EXCEPT !.personalTitle = "docs"]
       /\ req[q].data = [NoData EXCEPT !.personalNote = "read"]
       /\ req[q].result.body[1].bookmark.personalTitle = "docs"
       /\ req[p].result.body[1].bookmark.personalNote = "read"
       /\ \E b \in bookmarks : /\ b.id = req[p].bookmarkId
                               /\ b.personalTitle = "docs"
                               /\ b.personalNote = "read"

-----------------------------------------------------------------------------
(* SpecAttach: addTagsToBookmark with lists of owned, foreign and unknown ids *)

\* addTagsToBookmarkSchema: tagIds of one or two ids, repeated or not
AttachLists ==
    LET ids == TagIds \cup {AbsentTagId}
    IN {<<t>> : t \in ids} \cup {<<t1, t2>> : t1 \in ids, t2 \in ids}

NextAttach ==
    \/ \E u \in Users, n \in TagNames : CreateTag(u, n)
    \/ \E d \in {NewBookmark("https://x.io"),
                 [NewBookmark("https://x.io") EXCEPT !.tags = <<"dev">>]} :
          /\ seq.bookmarks < MaxRefBookmarks
          /\ CreateBookmark("u1", d)
    \/ \E u \in Users, b \in bookmarks, ids \in AttachLists : AddTagsToBookmark(u, b.id, ids)
    \/ \E b \in bookmarks, t \in TagIds : RemoveTagFromBookmark("u1", b.id, t)
    \/ SendReply

SpecAttach == Init /\ [][NextAttach]_vars

\* the ids of the list that are tags of the caller in the store before the call
OwnedIn(call) == {t.id : t \in {x \in call.pre.tags : x.userId = call.userId}}

\* the call is an addTagsToBookmark on a live bookmark of the caller
AttachOnOwn ==
    /\ last.op = "addTagsToBookmark"
    /\ FindOwnedLiveBookmark(last.pre, last.bookmarkId, last.userId) # {}

\* C24 (addTagsToBookmark is all-or-nothing and idempotent): on the caller's live
\* bookmark, a list with an id that is not a tag of the caller is answered 400
\* INVALID_TAGS and the store is as before; a list of distinct tags of the caller
\* succeeds and the links are those before plus one per listed tag, the already
\* attached ones included; in every case the links of tags not listed, the tags
\* and the bookmarks are as before
C24_AttachAllOrNothing ==
    AttachOnOwn
    => /\ ~(Range(last.data.tagIds) \subseteq OwnedIn(last))
          => /\ Reply(last.result) = [status |-> 400, code |-> "INVALID_TAGS"]
             /\ DB = last.pre
       /\ (Range(last.data.tagIds) \subseteq OwnedIn(last) /\ Distinct(last.data.tagIds))
          => /\ last.result.ok
             /\ bookmarkTags = last.pre.bookmarkTags \cup
                   {[bookmarkId |-> last.bookmarkId, tagId |-> t] :
                       t \in Range(last.data.tagIds)}
       /\ {l \in bookmarkTags : l.tagId \notin Range(last.data.tagIds)}
             = {l \in last.pre.bookmarkTags : l.tagId \notin Range(last.data.tagIds)}
       /\ tags = last.pre.tags
       /\ bookmarks = last.pre.bookmarks

\* a tag that was attached already was attached again together with a new one
\* and the call succeeded: the bookmark has both links
C24_Witness ==
    /\ AttachOnOwn
    /\ last.result.ok
    /\ Len(last.data.tagIds) > 1
    /\ Distinct(last.data.tagIds)
    /\ LinkRows(last.pre, last.bookmarkId, last.data.tagIds[2]) # {}
    /\ LinkRows(last.pre, last.bookmarkId, last.data.tagIds[1]) = {}
    /\ Cardinality(LinksOf(DB, last.bookmarkId)) > 1

\* C27 (INVALID_TAGS only for a list with an id the caller does not own): on the
\* caller's live bookmark, every list whose ids are all tags of the caller, with
\* or without repeated ids, succeeds and each of its tags is attached
C27_OwnedListsAccepted ==
    (AttachOnOwn /\ Range(last.data.tagIds) \subseteq OwnedIn(last))
    => /\ last.result.ok
       /\ \A t \in Range(last.data.tagIds) :
             Cardinality(LinkRows(DB, last.bookmarkId, t)) = 1

-----------------------------------------------------------------------------
(* SpecAssign: updateBookmarkCategory with every categoryId of its schema *)

\* updateBookmarkCategorySchema: categoryId is a string or null
AssignedCategoryIds == {NullId, EmptyId, AbsentCategoryId} \cup CategoryIds

NextAssign ==
    \/ \E u \in Users, n \in CategoryNames : CreateCategory(u, n)
    \/ \E d \in {NewBookmark("https://x.io"),
                 [NewBookmark("https://x.io") EXCEPT !.tags = <<"dev">>],
                 FullBookmark} :
          /\ seq.bookmarks < MaxRefBookmarks
          /\ CreateBookmark("u1", d)
    \/ \E u \in Users, b \in bookmarks, c \in AssignedCategoryIds :
          UpdateBookmarkCategory(u, b.id, c)
    \/ \E b \in bookmarks : DeleteBookmark("u1", b.id)
    \/ SendReply

SpecAssign == Init /\ [][NextAssign]_vars

\* C25 (updateBookmarkCategory): on the caller's live bookmark, a categoryId that
\* is not null and names no category of the caller is answered 400
\* INVALID_CATEGORY with the store as before; a category of the caller is
\* assigned and null clears the category; in every case the other fields of the
\* bookmark, the other bookmarks and all tag links are as before
C25_CategoryAssignment ==
    (/\ last.op = "updateBookmarkCategory"
     /\ FindOwnedLiveBookmark(last.pre, last.bookmarkId, last.userId) # {})
    => LET c == last.data.categoryId
           o == TheRow(FindOwnedLiveBookmark(last.pre, last.bookmarkId, last.userId))
       IN /\ (c # NullId /\ FindOwnedCategory(last.pre, c, last.userId) = {})
             => /\ Reply(last.result) = [status |-> 400, code |-> "INVALID_CATEGORY"]
                /\ DB = last.pre
          /\ (c = NullId \/ FindOwnedCategory(last.pre, c, last.userId) # {})
             => /\ last.result.ok
                /\ bookmarks = (last.pre.bookmarks \ {o}) \cup {[o EXCEPT !.categoryId = c]}
          /\ bookmarkTags = last.pre.bookmarkTags
          /\ \A b \in bookmarks : b.id = o.id => b = [o EXCEPT !.categoryId = b.categoryId]

-----------------------------------------------------------------------------
(* SpecListRace: getBookmarks running while a bookmark is created or deleted *)

NextListRace ==
    \/ /\ seq.bookmarks < MaxRefBookmarks
       /\ Before(CreateBookmark("u1", NewBookmark("https://x.io")))
    \/ SendReply
    \/ \E p \in Procs, n \in {1, DefaultLimit} :
          Invoke(p, "getBookmarks", "u1", NullId, NullId, [NoData EXCEPT !.page = 1, !.limit = n])
    \/ \E p \in Procs :
          /\ seq.bookmarks + Cardinality(Inserting) < MaxBookmarks
          /\ Invoke(p, "createBookmark", "u1", NullId, NullId, NewBookmark("https://y.io"))
    \/ \E p \in Procs, b \in bookmarks :
          Invoke(p, "deleteBookmark", "u1", b.id, NullId, NoData)
    \/ \E p \in Procs : StepProc(p)

SpecListRace == Init /\ [][NextListRace]_vars

\* C26 (page contents are consistent with the reported count): every finished
\* getBookmarks call returned at most limit bookmarks and at most
\* max(0, totalCount - (page - 1) * limit), and a first page that is not full,
\* which holds every bookmark matching where it was read, has totalCount entries
C26_PageMatchesCount ==
    \A p \in Procs :
       (req[p].op = "getBookmarks" /\ req[p].pc = "done")
          => LET returned == Len(req[p].result.body)
                 total == req[p].result.pagination.totalCount
                 rest == total - (req[p].data.page - 1) * req[p].data.limit
             IN /\ returned <= req[p].data.limit
                /\ returned <= IF rest > 0 THEN rest ELSE 0
                /\ (req[p].data.page = 1 /\ returned < req[p].data.limit) => total = returned

-----------------------------------------------------------------------------
(* SpecSoftDelete: deleteBookmark and the other writers of one bookmark, one
   after the other or together, while time passes *)

\* time passes between two statements
Tick ==
    /\ clock < MaxClock
    /\ clock' = clock + 1
    /\ UNCHANGED <<websiteMetadata, categories, bookmarks, tags, bookmarkTags, seq, last, req>>

NextSoftDelete ==
    \/ Before(CreateCategory("u1", "Work"))
    \/ Before(CreateTag("u1", "ref"))
    \/ /\ seq.bookmarks < MaxRefBookmarks
       /\ Before(CreateBookmark("u1", [NewBookmark("https://x.io") EXCEPT !.tags = <<"dev">>]))
    \/ SendReply
    \/ Tick
    \/ \E p \in Procs, b \in bookmarks : Invoke(p, "deleteBookmark", "u1", b.id, NullId, NoData)
    \/ \E p \in Procs, b \in bookmarks :
          \/ \E d \in {[NoData EXCEPT !.personalTitle = "docs"], [NoData EXCEPT !.tags = <<"ref">>]} :
                Invoke(p, "updateBookmark", "u1", b.id, NullId, d)
          \/ \E t \in tags :
                \/ Invoke(p, "addTagsToBookmark", "u1", b.id, NullId,
                          [NoData EXCEPT !.tagIds = <<t.id>>])
                \/ Invoke(p, "removeTagFromBookmark", "u1", b.id, t.id, NoData)
          \/ \E c \in categories :
                Invoke(p, "updateBookmarkCategory", "u1", b.id, NullId,
                       [NoData EXCEPT !.categoryId = c.id])
    \/ \E p \in Procs : StepProc(p)

SpecSoftDelete == Init /\ [][NextSoftDelete]_vars

\* C28 (a soft-deleted bookmark is frozen): no step of an updateBookmark,
\* addTagsToBookmark, removeTagFromBookmark or updateBookmarkCategory call
\* changes a field other than deletedAt, or a tag link, of a bookmark whose
\* deletedAt is set, and no such call returns a bookmark whose deletedAt is set
C28_DeletedIsFrozen ==
    [][/\ \A o \in bookmarks :
             o.deletedAt # NullTime
             => /\ \E b \in bookmarks' : b.id = o.id /\ [b EXCEPT !.deletedAt = o.deletedAt] = o
                /\ {l \in bookmarkTags' : l.bookmarkId = o.id} = LinksOf(DB, o.id)
       /\ \A p \in Procs :
             (req'[p].op = "updateBookmark" /\ req'[p].pc = "done" /\ req'[p].result.ok)
                => req'[p].result.body[1].bookmark.deletedAt = NullTime]_vars

\* C29 (a bookmark is deleted exactly once): of two deleteBookmark calls by the
\* owner on one bookmark that are both done, one succeeded and the other was
\* answered BOOKMARK_NOT_FOUND, and no step changes a deletedAt that is set
C29_DeletedOnce ==
    [][/\ \A p, q \in Procs :
             (/\ p # q
              /\ req'[p].pc = "done" /\ req'[q].pc = "done"
              /\ req'[p].op = "deleteBookmark" /\ req'[q].op = "deleteBookmark"
              /\ req'[p].bookmarkId = req'[q].bookmarkId)
             => \/ req'[p].result.ok /\ req'[q].result.code = "BOOKMARK_NOT_FOUND"
                \/ req'[q].result.ok /\ req'[p].result.code = "BOOKMARK_NOT_FOUND"
       /\ \A o \in bookmarks :
             o.deletedAt # NullTime
             => \E b \in bookmarks' : b.id = o.id /\ b.deletedAt = o.deletedAt]_vars

-----------------------------------------------------------------------------
(* SpecLinks: the calls that write bookmarks, tags and their links, by both
   users, at most two of them running together *)

\* a whole call made and answered between two statements of the calls in flight
Whole(op, userId, bookmarkId, tagId, data) ==
    /\ Store(Exec(DB, op, userId, bookmarkId, tagId, data).db)
    /\ UNCHANGED <<last, req>>

\* the handler of p runs its next Prisma call and replies after the last one
StepAndReply(p) ==
    /\ req[p].pc \notin {"idle", "done"}
    /\ LET out == Step(DB, req[p])
       IN /\ Store(out.db)
          /\ req' = [req EXCEPT ![p] = IF out.r.pc = "done" THEN Idle ELSE out.r]
    /\ UNCHANGED last

\* the calls of the two users: u1 holds the bookmarks, both hold tags, and each
\* tries to attach the other's tags and to attach tags to the other's bookmarks
LinkCalls ==
    {Call("createBookmark", "u1", NullId, NullId,
          [NewBookmark("https://x.io") EXCEPT !.tags = <<"dev">>]),
     Call("createTag", "u2", NullId, NullId, [NoData EXCEPT !.name = "dev"])}
    \cup {Call("updateBookmark", "u1", b.id, NullId, [NoData EXCEPT !.tags = <<"dev">>]) :
             b \in bookmarks}
    \cup {Call("deleteBookmark", "u1", b.id, NullId, NoData) : b \in bookmarks}
    \cup {Call("addTagsToBookmark", "u1", b.id, NullId, [NoData EXCEPT !.tagIds = <<t.id>>]) :
             b \in bookmarks, t \in tags}
    \cup {Call("addTagsToBookmark", t.userId, b.id, NullId,
                [NoData EXCEPT !.tagIds = <<t.id>>]) : b \in bookmarks, t \in tags}
    \cup {Call("removeTagFromBookmark", "u1", l.bookmarkId, l.tagId, NoData) :
             l \in bookmarkTags}
    \cup {Call("updateTag", t.userId, NullId, t.id, [NoData EXCEPT !.name = "ref"]) :
             t \in {x \in tags : x.userId = "u2"}}
    \cup {Call("deleteTag", t.userId, NullId, t.id, NoData) : t \in tags}

\* the store has room for the rows the call may insert or remove
Admitted(c) ==
    /\ c.op = "createBookmark" => seq.bookmarks + Cardinality(Inserting) < MaxRefBookmarks
    /\ c.op = "deleteTag" => HardDeletes < MaxDeletes

\* one call is split at its awaits while the others run whole between its
\* statements
NextLinks ==
    \/ \E p \in Procs, c \in LinkCalls :
          /\ Quiet
          /\ Admitted(c)
          /\ Invoke(p, c.op, c.userId, c.bookmarkId, c.tagId, c.data)
    \/ \E c \in LinkCalls :
          /\ ~Quiet
          /\ Admitted(c)
          /\ Whole(c.op, c.userId, c.bookmarkId, c.tagId, c.data)
    \/ \E p \in Procs : StepAndReply(p)

SpecLinks == Init /\ [][NextLinks]_vars

====
